---- MODULE Spec2Model ----
(***************************************************************************)
(* Holen diagram editor: the zustand diagram store (diagramStore), its     *)
(* derived edge list and its undo/redo history.                            *)
(*                                                                         *)
(* Node ids are uuids in the program.  Here the n-th uuid handed out by    *)
(* uuidv4() is the number n; Null (0) stands for null.                     *)
(***************************************************************************)
EXTENDS Integers, Sequences, FiniteSets, TLC

VARIABLES
  nodes,            \* DiagramNode[]
  edges,            \* DiagramEdge[]
  selectedNodeId,   \* string | null
  selectedNodeIds,  \* string[]
  selectedEdgeId,   \* string | null
  diagramName,      \* string
  history,          \* HistoryState[]
  historyIndex,     \* number
  nextId,           \* number of uuids handed out so far
  budget,           \* number of saveToHistory() calls this run may still make
  lastOp,           \* the operation that ran last, its argument and outcome
  rt,               \* observer of edit / undo / redo sequences
  derived,          \* result of the last stand-alone deriveEdges() call
  smartEdge,        \* a rendered SmartEdge: anchors, obstacle bounds, path
  localStorage,     \* the item stored under STORAGE_KEY
  fileInput         \* the import's file dialog and the files being read

vars == <<nodes, edges, selectedNodeId, selectedNodeIds, selectedEdgeId,
          diagramName, history, historyIndex, nextId, budget, lastOp, rt,
          derived, smartEdge, localStorage, fileInput>>

(***************************************************************************)
(* Bounds of the model and constants of the program                        *)
(***************************************************************************)
MaxIds == 3
MaxSaves == 3
MaxList == 3
MaxHistory == 50
LongSession == MaxHistory - 1

Null == 0          \* null, for node ids
NullEdge == <<>>   \* null, for edge ids
Overflow == -1
IdUniverse == 1..MaxIds

DEFAULT_NODE_STYLE == "default"
DEFAULT_EDGE_STYLE == "default"
CustomStyle == "custom"

(***************************************************************************)
(* Sequence helpers (Array.prototype.filter / map / includes)              *)
(***************************************************************************)
RECURSIVE SeqFilter(_, _)
SeqFilter(s, keep) ==
  IF s = <<>> THEN <<>>
  ELSE IF Head(s) \in keep THEN <<Head(s)>> \o SeqFilter(Tail(s), keep)
       ELSE SeqFilter(Tail(s), keep)

Range(s) == {s[i] : i \in DOMAIN s}

NodeIds(ns) == {ns[i].id : i \in DOMAIN ns}

(***************************************************************************)
(* deriveEdges                                                             *)
(***************************************************************************)
EdgeId(p, c) == <<"edge", p, c>>

EdgeOf(n) ==
  [id |-> EdgeId(n.parentId, n.id), source |-> n.parentId, target |-> n.id,
   type |-> "smoothstep", style |-> DEFAULT_EDGE_STYLE]

\* Variant: the filter on parentId is left out.
deriveEdgesUnfiltered(ns) == [i \in DOMAIN ns |-> EdgeOf(ns[i])]

deriveEdges(ns) ==
  LET parented == SeqFilter(ns, {n \in Range(ns) : n.parentId # Null})
  IN  [i \in DOMAIN parented |-> EdgeOf(parented[i])]

(***************************************************************************)
(* createNode                                                              *)
(***************************************************************************)
\* Variant: the id is a fixed string instead of a fresh uuid.
createNodeFixedId(id, parentId, title, style) ==
  [id |-> 1, parentId |-> parentId, title |-> title, style |-> style,
   position |-> [x |-> 0, y |-> 0]]

createNode(id, parentId, title, style) ==
  [id |-> id, parentId |-> parentId, title |-> title, style |-> style,
   position |-> [x |-> 0, y |-> 0]]

(***************************************************************************)
(* Read accessors                                                          *)
(***************************************************************************)
\* nodes.find(n => n.id === id): Found(..) is "the result is not undefined"
Find(s, match) == SeqFilter(s, match)
Found(hits) == hits # <<>>

getNodeById(ns, id) == Find(ns, {n \in Range(ns) : n.id = id})

getChildNodes(ns, parentId) ==
  SeqFilter(ns, {n \in Range(ns) : n.parentId = parentId})

getEdgeById(es, id) == Find(es, {e \in Range(es) : e.id = id})

(***************************************************************************)
(* deleteNode.collectDescendants: the recursive walk over child links.     *)
(* The code keeps no visited set, so on a parent cycle the recursion never *)
(* returns and the engine raises RangeError (stack overflow).  A call      *)
(* chain deeper than the node count has revisited a node, so that is the   *)
(* point where the result becomes Overflow.                                *)
(***************************************************************************)
\* Variant: the walk stops at the direct children.
collectChildrenOnly(ns, nodeId, depth) ==
  {nodeId} \cup {c.id : c \in Range(getChildNodes(ns, nodeId))}

\* Variant: no walk at all, only the node itself is collected.
collectSelfOnly(ns, nodeId, depth) == {nodeId}

RECURSIVE collectDescendants(_, _, _)
collectDescendants(ns, nodeId, depth) ==
  IF depth > Len(ns) THEN {Overflow}
  ELSE {nodeId} \cup
       UNION {collectDescendants(ns, c.id, depth + 1) :
                c \in Range(getChildNodes(ns, nodeId))}

(***************************************************************************)
(* { ...n, ...updates }: shallow merge of a partial record into a record   *)
(***************************************************************************)
Merge(n, updates) ==
  [f \in DOMAIN n |-> IF f \in DOMAIN updates THEN updates[f] ELSE n[f]]

MapNodes(ns, ids, updates) ==
  [i \in DOMAIN ns |-> IF ns[i].id \in ids THEN Merge(ns[i], updates) ELSE ns[i]]

(***************************************************************************)
(* Inputs of the operations                                                *)
(***************************************************************************)
NodeUpdates ==
  {[title |-> "Edited"]} \cup {[parentId |-> p] : p \in IdUniverse \cup {Null}}

ContentUpdates == {u \in NodeUpdates : "parentId" \notin DOMAIN u}

EdgeIdUniverse == {EdgeId(p, c) : p \in IdUniverse, c \in IdUniverse}

\* One layout result: a position for the first and for the second node.
PositionLists == {<<[id |-> 1, x |-> 30, y |-> 40], [id |-> 2, x |-> 30, y |-> 160]>>}

SelectionLists == {<<>>, <<2>>, <<1, 2>>}

(***************************************************************************)
(* saveToHistory                                                           *)
(***************************************************************************)
\* Variant: the list is never shortened at the front.
SavedHistoryNoCap ==
  SubSeq(history, 1, historyIndex + 1) \o <<[nodes |-> nodes, edges |-> edges]>>

SavedHistory ==
  LET newHistory == SubSeq(history, 1, historyIndex + 1)
                      \o <<[nodes |-> nodes, edges |-> edges]>>
  IN  IF Len(newHistory) > MaxHistory THEN Tail(newHistory) ELSE newHistory

saveToHistory ==
  /\ budget > 0
  /\ history' = SavedHistory
  /\ historyIndex' = Len(SavedHistory) - 1
  /\ budget' = budget - 1

(***************************************************************************)
(* Observer: which operation ran last, and where a run of N successful     *)
(* edits, N undo() calls and N redo() calls from an empty history stands.  *)
(***************************************************************************)
Snapshot(ns, es) == [nodes |-> ns, edges |-> es]

RtOff == [phase |-> "off", n |-> 0, k |-> 0,
          base |-> Snapshot(<<>>, <<>>), after |-> Snapshot(<<>>, <<>>)]

RtFresh(ns, es) == [phase |-> "edit", n |-> 0, k |-> 0,
                    base |-> Snapshot(ns, es), after |-> Snapshot(<<>>, <<>>)]

RtEdit(ok) ==
  IF rt.phase = "edit" /\ ok THEN [rt EXCEPT !.n = @ + 1] ELSE RtOff

RtUndo ==
  IF rt.phase = "edit" /\ rt.n >= 1
  THEN [rt EXCEPT !.phase = "undo", !.k = 1, !.after = Snapshot(nodes, edges)]
  ELSE IF rt.phase = "undo" /\ rt.k < rt.n THEN [rt EXCEPT !.k = @ + 1]
  ELSE RtOff

RtRedo ==
  IF rt.phase = "undo" /\ rt.k = rt.n THEN [rt EXCEPT !.phase = "redo", !.k = 1]
  ELSE IF rt.phase = "redo" /\ rt.k < rt.n THEN [rt EXCEPT !.k = @ + 1]
  ELSE RtOff

\* hit: the id the call names exists; threw: the call raised an exception;
\* redoable: redo() had a snapshot to restore when the call started.
Op(name, arg, hit, threw) ==
  [op |-> name, arg |-> <<arg>>, hit |-> hit, threw |-> threw,
   redoable |-> historyIndex < Len(history) - 1]

Arg(o) == o.arg[1]

\* No edge rendered yet.
NoSmartEdge ==
  [source |-> 0, target |-> 0, sourceX |-> 0, sourceY |-> 0, targetX |-> 0,
   targetY |-> 0, spacing |-> 25, borderRadius |-> 4, rfNodes |-> <<>>,
   router |-> "none", nodeBounds |-> <<>>, path |-> <<>>]

(***************************************************************************)
(* saveDiagram and the browser's localStorage                              *)
(***************************************************************************)
\* Variant: the name is not saved.
saveDiagramUntitled ==
  [schemaVersion |-> 1, nodes |-> nodes, edges |-> edges,
   settings |-> [name |-> "Untitled Diagram"]]

\* createdAt and updatedAt, both new Date(), are left out.
saveDiagram ==
  [schemaVersion |-> 1, nodes |-> nodes, edges |-> edges,
   settings |-> [name |-> diagramName]]

\* What localStorage holds under STORAGE_KEY: nothing, text that is no
\* JSON, or the JSON text of a value.  JSON.stringify writes the fields of
\* the value, JSON.parse reads them back or throws a SyntaxError.
NoItem == [kind |-> "none"]
JSONstringify(value) == [kind |-> "json", value |-> value]
JSONparse(text) == text.value

\* The store runs in the browser: window is defined.
saveToLocalStorage == localStorage' = JSONstringify(saveDiagram')

\* The import's <input type="file">: whether its dialog is open, and the
\* files whose text() has not resolved yet.
NoFileInput == [dialog |-> FALSE, reading |-> <<>>]

(***************************************************************************)
(* Initial state: the store as constructed                                 *)
(***************************************************************************)
Constructed(b) ==
  /\ nodes = <<>>
  /\ edges = <<>>
  /\ selectedNodeId = Null
  /\ selectedNodeIds = <<>>
  /\ selectedEdgeId = NullEdge
  /\ diagramName = "Untitled Diagram"
  /\ history = <<>>
  /\ historyIndex = -1
  /\ nextId = 0
  /\ budget = b
  /\ lastOp = Op("create", Null, TRUE, FALSE)
  /\ rt = RtFresh(<<>>, <<>>)
  /\ derived = <<>>
  /\ smartEdge = NoSmartEdge
  /\ localStorage = NoItem
  /\ fileInput = NoFileInput

Init == Constructed(MaxSaves)

\* The same store, explored one edit deeper.
InitDeep == Constructed(MaxSaves + 1)

(***************************************************************************)
(* addRootNode / addChildNode / addSiblingNode                             *)
(***************************************************************************)
addRootNode ==
  /\ saveToHistory
  /\ nextId < MaxIds
  /\ LET node == [createNode(nextId + 1, Null, "Root Node", DEFAULT_NODE_STYLE)
                    EXCEPT !.position = [x |-> 400, y |-> 50]]
     IN  /\ nodes' = Append(nodes, node)
         /\ edges' = deriveEdges(Append(nodes, node))
         /\ selectedNodeId' = node.id
  /\ nextId' = nextId + 1
  /\ lastOp' = Op("addRoot", Null, TRUE, FALSE)
  /\ rt' = RtEdit(TRUE)
  /\ UNCHANGED <<selectedNodeIds, selectedEdgeId, diagramName, derived, smartEdge, fileInput>>
  /\ saveToLocalStorage

addChildNode(parentId) ==
  /\ saveToHistory
  /\ LET found == getNodeById(nodes, parentId)
         parent == Head(found)
     IN  IF ~Found(found)
         THEN /\ lastOp' = Op("addChild", parentId, FALSE, FALSE)
              /\ rt' = RtEdit(FALSE)
              /\ UNCHANGED <<nodes, edges, selectedNodeId, nextId>>
         ELSE /\ nextId < MaxIds
              /\ LET node == [createNode(nextId + 1, parentId, "Child Node",
                                         parent.style)
                                EXCEPT !.position =
                                  [x |-> parent.position.x,
                                   y |-> parent.position.y + 120]]
                 IN  /\ nodes' = Append(nodes, node)
                     /\ edges' = deriveEdges(Append(nodes, node))
                     /\ selectedNodeId' = node.id
              /\ nextId' = nextId + 1
              /\ lastOp' = Op("addChild", parentId, TRUE, FALSE)
              /\ rt' = RtEdit(TRUE)
  /\ UNCHANGED <<selectedNodeIds, selectedEdgeId, diagramName, derived, smartEdge, fileInput>>
  /\ IF lastOp'.hit THEN saveToLocalStorage ELSE UNCHANGED localStorage

addSiblingNode(siblingId) ==
  /\ saveToHistory
  /\ LET found == getNodeById(nodes, siblingId)
         sibling == Head(found)
     IN  IF ~Found(found)
         THEN /\ lastOp' = Op("addSibling", siblingId, FALSE, FALSE)
              /\ rt' = RtEdit(FALSE)
              /\ UNCHANGED <<nodes, edges, selectedNodeId, nextId>>
         ELSE /\ nextId < MaxIds
              /\ LET node == [createNode(nextId + 1, sibling.parentId,
                                         "Sibling Node", sibling.style)
                                EXCEPT !.position =
                                  [x |-> sibling.position.x + 180,
                                   y |-> sibling.position.y]]
                 IN  /\ nodes' = Append(nodes, node)
                     /\ edges' = deriveEdges(Append(nodes, node))
                     /\ selectedNodeId' = node.id
              /\ nextId' = nextId + 1
              /\ lastOp' = Op("addSibling", siblingId, TRUE, FALSE)
              /\ rt' = RtEdit(TRUE)
  /\ UNCHANGED <<selectedNodeIds, selectedEdgeId, diagramName, derived, smartEdge, fileInput>>
  /\ IF lastOp'.hit THEN saveToLocalStorage ELSE UNCHANGED localStorage

(***************************************************************************)
(* updateNode / updateSelectedNodes                                        *)
(***************************************************************************)
updateNode(id, updates) ==
  /\ saveToHistory
  /\ nodes' = MapNodes(nodes, {id}, updates)
  /\ lastOp' = Op("update", id, id \in NodeIds(nodes), FALSE)
  /\ rt' = RtEdit(id \in NodeIds(nodes))
  /\ UNCHANGED <<edges, selectedNodeId, selectedNodeIds, selectedEdgeId,
                 diagramName, nextId, derived, smartEdge, fileInput>>
  /\ saveToLocalStorage

updateSelectedNodes(updates) ==
  /\ selectedNodeIds # <<>>
  /\ saveToHistory
  /\ nodes' = MapNodes(nodes, Range(selectedNodeIds), updates)
  /\ lastOp' = Op("updateMany", Null, TRUE, FALSE)
  /\ rt' = RtOff
  /\ UNCHANGED <<edges, selectedNodeId, selectedNodeIds, selectedEdgeId,
                 diagramName, nextId, derived, smartEdge, fileInput>>
  /\ saveToLocalStorage

(***************************************************************************)
(* deleteNode / deleteSelectedNodes                                        *)
(***************************************************************************)
deleteNode(id) ==
  /\ saveToHistory
  /\ LET nodesToDelete == collectDescendants(nodes, id, 0)
     IN  IF Overflow \in nodesToDelete
         THEN /\ lastOp' = Op("delete", id, id \in NodeIds(nodes), TRUE)
              /\ UNCHANGED <<nodes, edges, selectedNodeId, selectedNodeIds>>
         ELSE /\ LET newNodes ==
                       SeqFilter(nodes, {n \in Range(nodes) :
                                           n.id \notin nodesToDelete})
                 IN  /\ nodes' = newNodes
                     /\ edges' = deriveEdges(newNodes)
              /\ selectedNodeId' =
                   IF selectedNodeId # Null /\ selectedNodeId \in nodesToDelete
                   THEN Null ELSE selectedNodeId
              /\ selectedNodeIds' =
                   SeqFilter(selectedNodeIds,
                             Range(selectedNodeIds) \ nodesToDelete)
              /\ lastOp' = Op("delete", id, id \in NodeIds(nodes), FALSE)
  /\ rt' = RtEdit(id \in NodeIds(nodes) /\ ~lastOp'.threw)
  /\ UNCHANGED <<selectedEdgeId, diagramName, nextId, derived, smartEdge, fileInput>>
  /\ IF lastOp'.threw THEN UNCHANGED localStorage ELSE saveToLocalStorage

deleteSelectedNodes ==
  /\ selectedNodeIds # <<>>
  /\ saveToHistory
  /\ LET nodesToDelete ==
           UNION {collectDescendants(nodes, id, 0) : id \in Range(selectedNodeIds)}
     IN  IF Overflow \in nodesToDelete
         THEN /\ lastOp' = Op("deleteMany", Null, TRUE, TRUE)
              /\ UNCHANGED <<nodes, edges, selectedNodeId, selectedNodeIds>>
         ELSE /\ LET newNodes ==
                       SeqFilter(nodes, {n \in Range(nodes) :
                                           n.id \notin nodesToDelete})
                 IN  /\ nodes' = newNodes
                     /\ edges' = deriveEdges(newNodes)
              /\ selectedNodeId' = Null
              /\ selectedNodeIds' = <<>>
              /\ lastOp' = Op("deleteMany", Null, TRUE, FALSE)
  /\ rt' = RtOff
  /\ UNCHANGED <<selectedEdgeId, diagramName, nextId, derived, smartEdge, fileInput>>
  /\ IF lastOp'.threw THEN UNCHANGED localStorage ELSE saveToLocalStorage

(***************************************************************************)
(* deleteEdge (detach)                                                     *)
(***************************************************************************)
deleteEdge(id) ==
  /\ saveToHistory
  /\ LET found == getEdgeById(edges, id)
         edge == Head(found)
     IN  IF ~Found(found)
         THEN /\ lastOp' = Op("detach", id, FALSE, FALSE)
              /\ rt' = RtEdit(FALSE)
              /\ UNCHANGED <<nodes, edges, selectedEdgeId>>
         ELSE /\ nodes' = MapNodes(nodes, {edge.target}, [parentId |-> Null])
              /\ edges' = SeqFilter(edges, {e \in Range(edges) : e.id # id})
              /\ selectedEdgeId' = NullEdge
              /\ lastOp' = Op("detach", id, TRUE, FALSE)
              /\ rt' = RtEdit(TRUE)
  /\ UNCHANGED <<selectedNodeId, selectedNodeIds, diagramName, nextId, derived, smartEdge, fileInput>>
  /\ IF lastOp'.hit THEN saveToLocalStorage ELSE UNCHANGED localStorage

(***************************************************************************)
(* setNodePositions                                                        *)
(***************************************************************************)
setNodePositions(positions) ==
  /\ nodes' =
       [i \in DOMAIN nodes |->
          LET pos == SeqFilter(positions,
                               {p \in Range(positions) : p.id = nodes[i].id})
          IN  IF pos # <<>>
              THEN [nodes[i] EXCEPT
                      !.position = [x |-> Head(pos).x, y |-> Head(pos).y]]
              ELSE nodes[i]]
  /\ lastOp' = Op("setPositions", Null, TRUE, FALSE)
  /\ rt' = RtOff
  /\ UNCHANGED <<edges, selectedNodeId, selectedNodeIds, selectedEdgeId,
                 diagramName, history, historyIndex, nextId, budget, derived, smartEdge, fileInput>>
  /\ saveToLocalStorage

(***************************************************************************)
(* undo / redo                                                             *)
(***************************************************************************)
undo ==
  /\ IF historyIndex > 0
     THEN LET prevState == history[historyIndex]   \* history[historyIndex - 1], 0-based
          IN  /\ nodes' = prevState.nodes
              /\ edges' = prevState.edges
              /\ historyIndex' = historyIndex - 1
     ELSE UNCHANGED <<nodes, edges, historyIndex>>
  /\ lastOp' = Op("undo", Null, historyIndex > 0, FALSE)
  /\ rt' = RtUndo
  /\ UNCHANGED <<selectedNodeId, selectedNodeIds, selectedEdgeId, diagramName,
                 history, nextId, budget, derived, smartEdge, fileInput>>
  /\ IF historyIndex > 0 THEN saveToLocalStorage ELSE UNCHANGED localStorage

redo ==
  /\ IF historyIndex < Len(history) - 1
     THEN LET nextState == history[historyIndex + 2] \* history[historyIndex + 1], 0-based
          IN  /\ nodes' = nextState.nodes
              /\ edges' = nextState.edges
              /\ historyIndex' = historyIndex + 1
     ELSE UNCHANGED <<nodes, edges, historyIndex>>
  /\ lastOp' = Op("redo", Null, historyIndex < Len(history) - 1, FALSE)
  /\ rt' = RtRedo
  /\ UNCHANGED <<selectedNodeId, selectedNodeIds, selectedEdgeId, diagramName,
                 history, nextId, budget, derived, smartEdge, fileInput>>
  /\ IF historyIndex < Len(history) - 1 THEN saveToLocalStorage
     ELSE UNCHANGED localStorage

(***************************************************************************)
(* Selection                                                               *)
(***************************************************************************)
FirstOrNull(ids) == IF Len(ids) = 1 THEN ids[1]
                    ELSE IF Len(ids) > 0 THEN ids[1] ELSE Null

setSelectedNode(id) ==
  /\ selectedNodeId' = id
  /\ selectedNodeIds' = IF id # Null THEN <<id>> ELSE <<>>
  /\ lastOp' = Op("select", id, TRUE, FALSE)
  /\ rt' = RtOff
  /\ UNCHANGED <<nodes, edges, selectedEdgeId, diagramName, history,
                 historyIndex, nextId, budget, derived, smartEdge, localStorage, fileInput>>

setSelectedNodes(ids) ==
  /\ selectedNodeIds' = ids
  /\ selectedNodeId' = FirstOrNull(ids)
  /\ lastOp' = Op("setSelection", Null, TRUE, FALSE)
  /\ rt' = RtOff
  /\ UNCHANGED <<nodes, edges, selectedEdgeId, diagramName, history,
                 historyIndex, nextId, budget, derived, smartEdge, localStorage, fileInput>>

\* Variant: the id is appended whether or not it is already selected.
ToggledIdsAppendOnly(ids, id) == Append(ids, id)

\* newIds of toggleNodeSelection
ToggledIds(ids, id) ==
  LET isSelected == id \in Range(ids)
  IN  IF isSelected THEN SeqFilter(ids, Range(ids) \ {id}) ELSE Append(ids, id)

toggleNodeSelection(id) ==
  /\ LET newIds == ToggledIds(selectedNodeIds, id)
     IN  /\ selectedNodeIds' = newIds
         /\ selectedNodeId' = FirstOrNull(newIds)
  /\ lastOp' = Op("toggle", id, TRUE, FALSE)
  /\ rt' = RtOff
  /\ UNCHANGED <<nodes, edges, selectedEdgeId, diagramName, history,
                 historyIndex, nextId, budget, derived, smartEdge, localStorage, fileInput>>

\* [...new Set(s)]: the first occurrence of each element, in order
RECURSIVE Dedupe(_)
Dedupe(s) ==
  IF s = <<>> THEN <<>>
  ELSE LET front == Dedupe(SubSeq(s, 1, Len(s) - 1))
           last == s[Len(s)]
       IN  IF last \in Range(front) THEN front ELSE Append(front, last)

addToSelection(ids) ==
  /\ LET newIds == Dedupe(selectedNodeIds \o ids)
     IN  /\ selectedNodeIds' = newIds
         /\ selectedNodeId' = FirstOrNull(newIds)
  /\ lastOp' = Op("addToSelection", Null, TRUE, FALSE)
  /\ rt' = RtOff
  /\ UNCHANGED <<nodes, edges, selectedEdgeId, diagramName, history,
                 historyIndex, nextId, budget, derived, smartEdge, localStorage, fileInput>>

clearSelection ==
  /\ selectedNodeId' = Null
  /\ selectedNodeIds' = <<>>
  /\ lastOp' = Op("clearSelection", Null, TRUE, FALSE)
  /\ rt' = RtOff
  /\ UNCHANGED <<nodes, edges, selectedEdgeId, diagramName, history,
                 historyIndex, nextId, budget, derived, smartEdge, localStorage, fileInput>>

setSelectedEdge(id) ==
  /\ selectedEdgeId' = id
  /\ selectedNodeId' = Null
  /\ selectedNodeIds' = <<>>
  /\ lastOp' = Op("selectEdge", id, TRUE, FALSE)
  /\ rt' = RtOff
  /\ UNCHANGED <<nodes, edges, diagramName, history, historyIndex, nextId,
                 budget, derived, smartEdge, localStorage, fileInput>>

(***************************************************************************)
(* loadDiagram / clearDiagram                                              *)
(***************************************************************************)
Max(a, b) == IF a > b THEN a ELSE b

Diagram(ns, name) ==
  [schemaVersion |-> 1, nodes |-> ns, edges |-> deriveEdges(ns),
   settings |-> [name |-> name]]

SavedNode(id, parentId, x, y) ==
  [createNode(id, parentId, "Saved Node", DEFAULT_NODE_STYLE)
     EXCEPT !.position = [x |-> x, y |-> y]]

\* Diagrams saved by earlier sessions: empty, a single root, a root with one
\* child, a three-level chain, a root with two children, and two trees.
LoadSet ==
  {Diagram(<<>>, "Imported"),
   Diagram(<<SavedNode(1, Null, 400, 50)>>, "Imported"),
   Diagram(<<SavedNode(1, Null, 400, 50), SavedNode(2, 1, 400, 170)>>,
           "Imported"),
   Diagram(<<SavedNode(1, Null, 400, 50), SavedNode(2, 1, 400, 170),
             SavedNode(3, 2, 400, 290)>>, "Imported"),
   Diagram(<<SavedNode(1, Null, 400, 50), SavedNode(2, 1, 400, 170),
             SavedNode(3, 1, 580, 170)>>, "Imported"),
   Diagram(<<SavedNode(1, Null, 400, 50), SavedNode(2, Null, 580, 50),
             SavedNode(3, 2, 580, 170)>>, "Imported")}

\* data.settings.name raises a TypeError where data has no settings, before
\* set() is reached.  The Toolbar's file input is no part of the store: the
\* callers say what becomes of it.
loadDiagram(data) ==
  IF "settings" \notin DOMAIN data
  THEN /\ lastOp' = Op("load", data, FALSE, TRUE)
       /\ rt' = RtOff
       /\ UNCHANGED <<nodes, edges, selectedNodeId, selectedNodeIds,
                      selectedEdgeId, diagramName, history, historyIndex,
                      nextId, budget, derived, smartEdge, localStorage>>
  ELSE /\ nodes' = data.nodes
       /\ edges' = data.edges
       /\ diagramName' = data.settings.name
       /\ selectedNodeId' = Null
       /\ history' = <<>>
       /\ historyIndex' = -1
       /\ nextId' = Max(nextId, Len(data.nodes))
       /\ lastOp' = Op("load", data, TRUE, FALSE)
       /\ rt' = RtFresh(data.nodes, data.edges)
       /\ UNCHANGED <<selectedNodeIds, selectedEdgeId, budget, derived, smartEdge>>
       /\ saveToLocalStorage

(***************************************************************************)
(* setDiagramName / loadFromLocalStorage                                   *)
(***************************************************************************)
setDiagramName(name) ==
  /\ diagramName' = name
  /\ lastOp' = Op("setName", name, TRUE, FALSE)
  /\ rt' = RtOff
  /\ UNCHANGED <<nodes, edges, selectedNodeId, selectedNodeIds, selectedEdgeId,
                 history, historyIndex, nextId, budget, derived, smartEdge,
                 fileInput>>
  /\ saveToLocalStorage

\* getItem() returns null where nothing is stored.  JSON.parse and loadDiagram
\* run inside try: what either throws is caught and false is returned, which
\* is also the result where nothing is stored.
loadFromLocalStorage ==
  /\ IF localStorage.kind = "json"
     THEN loadDiagram(JSONparse(localStorage))
     ELSE /\ lastOp' = Op("loadFromLocalStorage", Null, FALSE,
                          localStorage.kind # "none")
          /\ rt' = RtOff
          /\ UNCHANGED <<nodes, edges, selectedNodeId, selectedNodeIds,
                         selectedEdgeId, diagramName, history, historyIndex,
                         nextId, budget, derived, smartEdge, localStorage>>
  /\ UNCHANGED fileInput

clearDiagram ==
  /\ nodes' = <<>>
  /\ edges' = <<>>
  /\ selectedNodeId' = Null
  /\ selectedNodeIds' = <<>>
  /\ selectedEdgeId' = NullEdge
  /\ diagramName' = "Untitled Diagram"
  /\ history' = <<>>
  /\ historyIndex' = -1
  /\ lastOp' = Op("clear", Null, TRUE, FALSE)
  /\ rt' = RtFresh(<<>>, <<>>)
  /\ UNCHANGED <<nextId, budget, derived, smartEdge, fileInput>>
  /\ saveToLocalStorage

(***************************************************************************)
(* Stand-alone call of deriveEdges on the current node list                *)
(***************************************************************************)
callDeriveEdges ==
  /\ derived' = deriveEdges(nodes)
  /\ lastOp' = Op("deriveEdges", Null, TRUE, FALSE)
  /\ UNCHANGED <<nodes, edges, selectedNodeId, selectedNodeIds, selectedEdgeId,
                 diagramName, history, historyIndex, nextId, budget, rt,
                 smartEdge, localStorage, fileInput>>

(***************************************************************************)
(* Other starting states                                                   *)
(***************************************************************************)
\* The store right after loadDiagram(d) on the constructed store.
InitLoaded ==
  \E d \in LoadSet :
    /\ nodes = d.nodes
    /\ edges = d.edges
    /\ selectedNodeId = Null
    /\ selectedNodeIds = <<>>
    /\ selectedEdgeId = NullEdge
    /\ diagramName = d.settings.name
    /\ history = <<>>
    /\ historyIndex = -1
    /\ nextId = Len(d.nodes)
    /\ budget = MaxSaves - 1
    /\ lastOp = Op("load", d, TRUE, FALSE)
    /\ rt = RtFresh(d.nodes, d.edges)
    /\ derived = <<>>
    /\ smartEdge = NoSmartEdge
    /\ localStorage = JSONstringify(d)
    /\ fileInput = NoFileInput

\* The constructed store after LongSession calls of addChildNode with an id
\* that names no node: each call runs saveToHistory() and then returns.
InitLongSession ==
  /\ nodes = <<>>
  /\ edges = <<>>
  /\ selectedNodeId = Null
  /\ selectedNodeIds = <<>>
  /\ selectedEdgeId = NullEdge
  /\ diagramName = "Untitled Diagram"
  /\ history = [i \in 1..LongSession |-> Snapshot(<<>>, <<>>)]
  /\ historyIndex = LongSession - 1
  /\ nextId = 0
  /\ budget = MaxSaves
  /\ lastOp = Op("addChild", 1, FALSE, FALSE)
  /\ rt = RtOff
  /\ derived = <<>>
  /\ smartEdge = NoSmartEdge
  /\ localStorage = NoItem
  /\ fileInput = NoFileInput

\* Any node list, as an argument of deriveEdges.
NodeValues ==
  {createNode(id, p, "New Node", DEFAULT_NODE_STYLE) :
     id \in IdUniverse, p \in IdUniverse \cup {Null}}

NodeLists == UNION {[1..n -> NodeValues] : n \in 0..MaxList}

InitDerive ==
  /\ nodes \in NodeLists
  /\ edges = <<>>
  /\ selectedNodeId = Null
  /\ selectedNodeIds = <<>>
  /\ selectedEdgeId = NullEdge
  /\ diagramName = "Untitled Diagram"
  /\ history = <<>>
  /\ historyIndex = -1
  /\ nextId = 0
  /\ budget = 0
  /\ lastOp = Op("create", Null, TRUE, FALSE)
  /\ rt = RtOff
  /\ derived = <<>>
  /\ smartEdge = NoSmartEdge
  /\ localStorage = NoItem
  /\ fileInput = NoFileInput

(***************************************************************************)
(* Specifications                                                          *)
(***************************************************************************)
AddRoot == addRootNode
AddChild == \E p \in IdUniverse : addChildNode(p)
AddSibling == \E s \in IdUniverse : addSiblingNode(s)
Update == \E id \in IdUniverse, u \in NodeUpdates : updateNode(id, u)
UpdateContent == \E id \in IdUniverse, u \in ContentUpdates : updateNode(id, u)
UpdateMany == \E u \in NodeUpdates : updateSelectedNodes(u)
Delete == \E id \in IdUniverse : deleteNode(id)
DeleteMany == deleteSelectedNodes
Detach == \E id \in EdgeIdUniverse : deleteEdge(id)
SetPositions == \E ps \in PositionLists : setNodePositions(ps)
Undo == undo
Redo == redo
Select == \E id \in IdUniverse \cup {Null} : setSelectedNode(id)
SetSelection == \E ids \in SelectionLists : setSelectedNodes(ids)
Toggle == \E id \in IdUniverse : toggleNodeSelection(id)
SelectEdge == \E id \in EdgeIdUniverse \cup {NullEdge} : setSelectedEdge(id)
Load == \E d \in LoadSet : loadDiagram(d) /\ UNCHANGED fileInput
Clear == clearDiagram
AddToSelection == \E ids \in SelectionLists : addToSelection(ids)

\* The whole store.
Next ==
  \/ AddRoot \/ AddChild \/ AddSibling \/ Update \/ UpdateMany
  \/ Delete \/ DeleteMany \/ Detach \/ SetPositions \/ Undo \/ Redo
  \/ SetSelection

Spec == Init /\ [][Next]_vars

\* Every operation of the store that changes the nodes, with undo, redo and
\* clear, from the constructed store: the edits that call
\* saveToHistory, on one node or on the selection, and setNodePositions,
\* which does not.  Updates here write the title only.
NextHistory ==
  \/ AddRoot \/ AddChild \/ AddSibling \/ UpdateContent
  \/ (\E u \in ContentUpdates : updateSelectedNodes(u))
  \/ Delete \/ DeleteMany \/ Detach \/ SetPositions
  \/ Undo \/ Redo \/ Clear \/ SetSelection

SpecHistory == Init /\ [][NextHistory]_vars

\* The operations that write the history list or its cursor on one node,
\* from an empty or a long history: saveToHistory through an edit, undo,
\* redo and clearDiagram.
NextBound ==
  \/ AddRoot \/ AddChild \/ AddSibling \/ UpdateContent \/ Delete \/ Detach
  \/ Undo \/ Redo \/ Clear

SpecBound == (Init \/ InitLongSession) /\ [][NextBound]_vars

\* The operations that never write id or parentId through update.
NextForest ==
  \/ AddRoot \/ AddChild \/ AddSibling \/ Delete \/ DeleteMany \/ Detach
  \/ SetPositions \/ Undo \/ Redo \/ SetSelection

SpecForest == InitDeep /\ [][NextForest]_vars

\* Edits of a diagram that was loaded.
NextLoaded ==
  \/ AddRoot \/ AddChild \/ AddSibling \/ Update \/ Delete \/ Detach
  \/ Undo \/ Redo

SpecLoaded == InitLoaded /\ [][NextLoaded]_vars

\* deriveEdges as a function of its argument.
NextDerive == callDeriveEdges

SpecDerive == InitDerive /\ [][NextDerive]_vars

(***************************************************************************)
(* Vocabulary of the properties                                            *)
(***************************************************************************)
HasParent(ns) == {i \in DOMAIN ns : ns[i].parentId # Null}

\* es holds one edge per node of ns that has a parent, in node order, and
\* nothing else.
OneEdgePerChild(es, ns) ==
  /\ Len(es) = Cardinality(HasParent(ns))
  /\ \A i \in HasParent(ns) :
       LET k == Cardinality({j \in HasParent(ns) : j <= i})
       IN  /\ es[k].id = EdgeId(ns[i].parentId, ns[i].id)
           /\ es[k].source = ns[i].parentId
           /\ es[k].target = ns[i].id

DistinctIds(ns) == \A i, j \in DOMAIN ns : ns[i].id = ns[j].id => i = j

ParentOf(ns, id) == ns[CHOOSE i \in DOMAIN ns : ns[i].id = id].parentId

\* Walking up the parent links from id meets x within fuel steps.
RECURSIVE IsUnder(_, _, _, _)
IsUnder(ns, id, x, fuel) ==
  \/ id = x
  \/ /\ fuel > 0
     /\ id \in NodeIds(ns)
     /\ ParentOf(ns, id) # Null
     /\ IsUnder(ns, ParentOf(ns, id), x, fuel - 1)

Subtree(ns, x) == {id \in NodeIds(ns) : IsUnder(ns, id, x, Len(ns))}

OwnAncestor(ns, id) ==
  /\ ParentOf(ns, id) # Null
  /\ IsUnder(ns, ParentOf(ns, id), id, Len(ns))

NoDangling(ns) ==
  \A i \in DOMAIN ns : ns[i].parentId # Null => ns[i].parentId \in NodeIds(ns)

IsForest(ns) ==
  /\ DistinctIds(ns)
  /\ NoDangling(ns)
  /\ \A id \in NodeIds(ns) : ~OwnAncestor(ns, id)

Without(ns, ids) == SeqFilter(ns, {n \in Range(ns) : n.id \notin ids})

HistoryEdits == {"addRoot", "addChild", "addSibling", "update", "updateMany",
                 "delete", "deleteMany", "detach"}

CanRedo == historyIndex < Len(history) - 1

\* The snapshot taken by the edit that ran last: the state it started from.
Before == history[Len(history)]

(***************************************************************************)
(* C1  History round-trip: from an empty history, N successful edits       *)
(* followed by N undo() calls give back the initial nodes and edges, and   *)
(* N redo() calls after that give the nodes and edges that held right      *)
(* after the N edits.                                                      *)
(***************************************************************************)
C1_HistoryRoundTrip ==
  /\ (rt.phase = "undo" /\ rt.k = rt.n) =>
        (nodes = rt.base.nodes /\ edges = rt.base.edges)
  /\ (rt.phase = "redo" /\ rt.k = rt.n) =>
        (nodes = rt.after.nodes /\ edges = rt.after.edges)

(***************************************************************************)
(* C2  History truncation: an edit performed while redo is available       *)
(* keeps only the snapshots up to the cursor, appends one, and leaves the  *)
(* cursor on the last snapshot, so that a redo() right after it finds      *)
(* nothing to restore.  The edits are the operations of HistoryEdits and a *)
(* position write (setNodePositions, auto-layout) that moves a node.       *)
(***************************************************************************)
C2_HistoryTruncation ==
  [][((\/ lastOp'.op \in HistoryEdits
       \/ lastOp'.op = "setPositions" /\ nodes' # nodes) /\ CanRedo) =>
       /\ Len(history') = historyIndex + 2
       /\ SubSeq(history', 1, historyIndex + 1) =
            SubSeq(history, 1, historyIndex + 1)
       /\ historyIndex' = Len(history') - 1
       /\ ~CanRedo']_vars

(***************************************************************************)
(* C3  History bound: the history holds at most 50 snapshots, the cursor   *)
(* stays within -1 .. length - 1 and is -1 exactly when the history is     *)
(* empty; an edit on a full history drops the oldest snapshot.             *)
(***************************************************************************)
C3_HistoryBound ==
  /\ [](/\ Len(history) <= MaxHistory
        /\ historyIndex >= -1
        /\ historyIndex <= Len(history) - 1
        /\ (historyIndex = -1 <=> history = <<>>))
  /\ [][(lastOp'.op \in HistoryEdits /\ Len(history) = MaxHistory
           /\ historyIndex = MaxHistory - 1) =>
          /\ history' = Append(Tail(history), Snapshot(nodes, edges))
          /\ ~lastOp'.threw]_vars

\* A full history has taken one more snapshot.
C3_Witness ==
  /\ Len(history) = MaxHistory
  /\ historyIndex = MaxHistory - 1
  /\ budget <= MaxSaves - 2
  /\ lastOp.op = "addRoot"
  /\ history[1] = Snapshot(<<>>, <<>>)
  /\ history[MaxHistory - 1] # Snapshot(<<>>, <<>>)

(***************************************************************************)
(* C4  Edges are a pure function of nodes: in every reachable state the    *)
(* edge list holds exactly one edge (id edge-<parentId>-<id>, source       *)
(* parentId, target id) per node that has a parent, and no other edge.     *)
(***************************************************************************)
C4_EdgesDerived == OneEdgePerChild(edges, nodes)

(***************************************************************************)
(* C5  Cascade delete completeness: on a forest, delete(X) of an existing  *)
(* X removes X and all nodes below X and no other node, leaves no parentId *)
(* naming a removed id, and re-derives the edges; deleting the only root   *)
(* leaves no node and no edge.                                             *)
(***************************************************************************)
C5_CascadeDelete ==
  [][(lastOp'.op = "delete" /\ lastOp'.hit /\ IsForest(nodes)) =>
       LET X == Arg(lastOp')
           removed == Subtree(nodes, X)
       IN  /\ ~lastOp'.threw
           /\ nodes' = Without(nodes, removed)
           /\ \A i \in DOMAIN nodes' : nodes'[i].parentId \notin removed
           /\ OneEdgePerChild(edges', nodes')
           /\ (removed = NodeIds(nodes) => nodes' = <<>> /\ edges' = <<>>)]_vars

\* The root of a three-level tree has been deleted and nothing is left.
C5_Witness ==
  /\ lastOp.op = "delete" /\ lastOp.hit /\ ~lastOp.threw
  /\ IsForest(Before.nodes)
  /\ Len(Before.nodes) = 3
  /\ \E i, j \in DOMAIN Before.nodes :
       /\ Before.nodes[i].parentId = Before.nodes[j].id
       /\ Before.nodes[j].parentId = Arg(lastOp)
  /\ nodes = <<>>
  /\ edges = <<>>

(***************************************************************************)
(* C6  Invalid-reference operations are no-ops: addChild, addSibling,      *)
(* update, delete and detach called with an id that does not exist leave   *)
(* nodes, edges, selection, history and cursor unchanged.                  *)
(***************************************************************************)
C6_InvalidReferenceNoOp ==
  [][(lastOp'.op \in {"addChild", "addSibling", "update", "delete", "detach"}
        /\ ~lastOp'.hit) =>
       UNCHANGED <<nodes, edges, selectedNodeId, selectedNodeIds,
                   selectedEdgeId, history, historyIndex>>]_vars

(***************************************************************************)
(* C7  No store operation is fatal: delete(id) and deleteMany() return     *)
(* without throwing in every reachable state, parent cycles included.      *)
(***************************************************************************)
C7_DeleteNeverThrows ==
  lastOp.op \in {"delete", "deleteMany"} => ~lastOp.threw

(***************************************************************************)
(* C8  Forest well-formedness: without updates of id or parentId, node ids *)
(* are pairwise distinct, every parentId names a node of the list, and no  *)
(* node is its own ancestor.                                               *)
(***************************************************************************)
C8_ForestWellFormed == IsForest(nodes)

\* A child and its own child were deleted from a three-node tree; the root
\* is what remains.
C8_Witness ==
  /\ lastOp.op = "delete" /\ lastOp.hit
  /\ Len(Before.nodes) = 3
  /\ Cardinality(HasParent(Before.nodes)) = 2
  /\ Len(nodes) = 1

(***************************************************************************)
(* C9  Edge derivation: deriveEdges returns one edge per node with a       *)
(* non-null parentId, with source = parentId and target = id, none for the *)
(* other nodes, and leaves its argument as it was.                         *)
(***************************************************************************)
C9_DeriveEdges ==
  [][lastOp'.op = "deriveEdges" =>
       /\ OneEdgePerChild(derived', nodes)
       /\ \A k \in DOMAIN derived' :
            derived'[k].type = "smoothstep" /\ derived'[k].style = DEFAULT_EDGE_STYLE
       /\ nodes' = nodes]_vars

\* A list with roots and children, two of them with the same parent link.
C9_Witness ==
  /\ lastOp.op = "deriveEdges"
  /\ Len(derived) >= 2
  /\ Len(derived) < Len(nodes)

(***************************************************************************)
(* C10 Node creation: a successful addRoot, addChild(p) or addSibling(s)   *)
(* appends exactly one node with an id that was not in the list and with   *)
(* parentId none, p, or the parentId of s; the earlier nodes are           *)
(* unchanged and the edges are the derived edges of the new list.          *)
(***************************************************************************)
C10_NodeCreation ==
  [][(lastOp'.op \in {"addRoot", "addChild", "addSibling"} /\ lastOp'.hit) =>
       LET new == nodes'[Len(nodes')]
       IN  /\ Len(nodes') = Len(nodes) + 1
           /\ SubSeq(nodes', 1, Len(nodes)) = nodes
           /\ new.id \notin NodeIds(nodes)
           /\ new.parentId =
                CASE lastOp'.op = "addRoot" -> Null
                  [] lastOp'.op = "addChild" -> Arg(lastOp')
                  [] lastOp'.op = "addSibling" ->
                       Head(getNodeById(nodes, Arg(lastOp'))).parentId
           /\ OneEdgePerChild(edges', nodes')]_vars

\* A sibling of a child node has been added.
C10_Witness ==
  /\ lastOp.op = "addSibling" /\ lastOp.hit
  /\ nodes[Len(nodes)].parentId # Null
  /\ Len(nodes) = Len(Before.nodes) + 1

(***************************************************************************)
(* C11 Add selects the new node: right after a successful addRoot,         *)
(* addChild or addSibling, selectedNodeId is the id of the new node and    *)
(* selectedNodeIds is the one-element list holding that id.                *)
(***************************************************************************)
C11_AddSelectsNewNode ==
  (lastOp.op \in {"addRoot", "addChild", "addSibling"} /\ lastOp.hit) =>
     /\ selectedNodeId = nodes[Len(nodes)].id
     /\ selectedNodeIds = <<nodes[Len(nodes)].id>>

(***************************************************************************)
(* Selection together with node creation                                   *)
(***************************************************************************)
InitShallow == Constructed(MaxSaves - 1)

NextSelect ==
  \/ AddRoot \/ AddChild \/ AddSibling
  \/ Select \/ SetSelection \/ Toggle \/ AddToSelection \/ clearSelection
  \/ SelectEdge

SpecSelect == InitShallow /\ [][NextSelect]_vars

(***************************************************************************)
(* C12 Node selection and edge selection are mutually exclusive:           *)
(* selectedEdgeId is non-null only when selectedNodeId is null and         *)
(* selectedNodeIds is empty.                                               *)
(***************************************************************************)
C12_SelectionExclusive ==
  selectedEdgeId # NullEdge => (selectedNodeId = Null /\ selectedNodeIds = <<>>)

(***************************************************************************)
(* C13 Toggle is an involution on selection membership: toggle(x) flips    *)
(* whether x is among the selected ids and leaves the membership of every  *)
(* other id as it was, so that a second toggle(x) gives back the original  *)
(* set; toggle(x) on [x] gives [] and toggle(x) on [] gives [x].           *)
(***************************************************************************)
C13_ToggleInvolution ==
  [][lastOp'.op = "toggle" =>
       LET x == Arg(lastOp')
       IN  /\ (x \in Range(selectedNodeIds')) <=> (x \notin Range(selectedNodeIds))
           /\ Range(selectedNodeIds') \ {x} = Range(selectedNodeIds) \ {x}
           /\ selectedNodeIds = <<x>> => selectedNodeIds' = <<>>
           /\ selectedNodeIds = <<>> => selectedNodeIds' = <<x>>
           /\ Range(ToggledIds(selectedNodeIds', x)) = Range(selectedNodeIds)]_vars

\* toggle(x) has just taken x out of a selection that holds other ids.
C13_Witness ==
  /\ lastOp.op = "toggle"
  /\ Arg(lastOp) \notin Range(selectedNodeIds)
  /\ selectedNodeIds # <<>>

(***************************************************************************)
(* Selection together with deletion, on a loaded diagram                   *)
(***************************************************************************)
NextDeleteSelected ==
  \/ Select \/ SetSelection \/ Toggle \/ SelectEdge \/ Delete \/ DeleteMany

SpecDeleteSelected == InitLoaded /\ [][NextDeleteSelected]_vars

(***************************************************************************)
(* C14 Delete clears the selection of removed items: after delete(id) or   *)
(* deleteMany() neither selectedNodeId nor an entry of selectedNodeIds     *)
(* names a node that the call removed, and selectedEdgeId does not name an *)
(* edge whose source or target node was removed.                           *)
(***************************************************************************)
C14_DeleteClearsSelection ==
  (lastOp.op \in {"delete", "deleteMany"} /\ ~lastOp.threw) =>
     LET removed == NodeIds(Before.nodes) \ NodeIds(nodes)
     IN  /\ selectedNodeId \notin removed
         /\ Range(selectedNodeIds) \cap removed = {}
         /\ \A e \in Range(Before.edges) :
              e.id = selectedEdgeId =>
                (e.source \notin removed /\ e.target \notin removed)

(***************************************************************************)
(* C15 Detach: detach(edgeId) for an existing edge sets the parentId of    *)
(* the edge's target node to none and changes nothing else in the node     *)
(* list, and the resulting edge list is the previous list without that     *)
(* edge, equal to the derived edges of the new node list.                  *)
(***************************************************************************)
C15_DetachFrame ==
  [][(lastOp'.op = "detach" /\ lastOp'.hit) =>
       LET e == Head(getEdgeById(edges, Arg(lastOp')))
       IN  /\ Len(nodes') = Len(nodes)
           /\ \A i \in DOMAIN nodes :
                nodes'[i] = IF nodes[i].id = e.target
                            THEN [nodes[i] EXCEPT !.parentId = Null]
                            ELSE nodes[i]
           /\ edges' = SeqFilter(edges, Range(edges) \ {e})
           /\ OneEdgePerChild(edges', nodes')]_vars

(***************************************************************************)
(* Dragging on the canvas: DiagramCanvas.onNodesChange and the store's     *)
(* moveSelectedNodes                                                       *)
(***************************************************************************)
MaxDragX == 420    \* moveSelectedNodes is not applied beyond this x

\* A React Flow NodeChange; position is <<>> where the change carries none.
PositionChange(id, dragging, x, y) ==
  [type |-> "position", id |-> id, dragging |-> dragging,
   position |-> <<[x |-> x, y |-> y]>>]

SelectChange(id) ==
  [type |-> "select", id |-> id, dragging |-> FALSE, position |-> <<>>]

\* The batches React Flow delivers: a pointer move while one node or two
\* selected nodes are dragged, the release of either gesture, a release that
\* carries no position, and a change that is not a position change.
NodeChanges ==
  {<<PositionChange(1, TRUE, 410, 60)>>,
   <<PositionChange(1, TRUE, 410, 60), PositionChange(2, TRUE, 410, 180)>>,
   <<PositionChange(1, FALSE, 420, 70)>>,
   <<PositionChange(1, FALSE, 420, 70), PositionChange(2, FALSE, 420, 190)>>,
   <<[PositionChange(1, FALSE, 0, 0) EXCEPT !.position = <<>>]>>,
   <<SelectChange(1)>>}

Commits(change) ==
  change.type = "position" /\ change.dragging = FALSE /\ change.position # <<>>

\* saveToHistory() applied to a given history, cursor and model
Pushed(h, idx, ns, es) ==
  LET newHistory == SubSeq(h, 1, idx + 1) \o <<Snapshot(ns, es)>>
  IN  IF Len(newHistory) > MaxHistory THEN Tail(newHistory) ELSE newHistory

\* changes.forEach(...): one updateNode(change.id, {position}) per change
\* that ends a drag
RECURSIVE AfterChanges(_, _)
AfterChanges(st, changes) ==
  IF changes = <<>> THEN st
  ELSE LET change == Head(changes)
           saved == Pushed(st.history, st.historyIndex, st.nodes, edges)
       IN  IF Commits(change)
           THEN AfterChanges(
                  [nodes |-> MapNodes(st.nodes, {change.id},
                                      [position |-> change.position[1]]),
                   history |-> saved,
                   historyIndex |-> Len(saved) - 1],
                  Tail(changes))
           ELSE AfterChanges(st, Tail(changes))

onNodesChange(changes) ==
  LET st == AfterChanges([nodes |-> nodes, history |-> history,
                          historyIndex |-> historyIndex], changes)
      saves == Cardinality({i \in DOMAIN changes : Commits(changes[i])})
  IN  /\ budget >= saves
      /\ nodes' = st.nodes
      /\ history' = st.history
      /\ historyIndex' = st.historyIndex
      /\ budget' = budget - saves
      /\ lastOp' = Op("nodesChange", changes, saves > 0, FALSE)
      /\ rt' = RtOff
      /\ UNCHANGED <<edges, selectedNodeId, selectedNodeIds, selectedEdgeId,
                     diagramName, nextId, derived, smartEdge, fileInput>>
      /\ IF saves > 0 THEN saveToLocalStorage ELSE UNCHANGED localStorage

moveSelectedNodes(deltaX, deltaY) ==
  /\ selectedNodeIds # <<>>
  /\ \A n \in Range(nodes) :
       n.id \in Range(selectedNodeIds) => n.position.x + deltaX <= MaxDragX
  /\ nodes' = [i \in DOMAIN nodes |->
                 IF nodes[i].id \in Range(selectedNodeIds)
                 THEN [nodes[i] EXCEPT !.position = [x |-> @.x + deltaX,
                                                     y |-> @.y + deltaY]]
                 ELSE nodes[i]]
  /\ lastOp' = Op("moveSelected", <<deltaX, deltaY>>, TRUE, FALSE)
  /\ rt' = RtOff
  /\ UNCHANGED <<edges, selectedNodeId, selectedNodeIds, selectedEdgeId,
                 diagramName, history, historyIndex, nextId, budget, derived, smartEdge, localStorage, fileInput>>

\* React Flow reports changes of the nodes it renders only.
NodesChange ==
  \E changes \in NodeChanges :
    /\ \A i \in DOMAIN changes : changes[i].id \in NodeIds(nodes)
    /\ onNodesChange(changes)
MoveSelected == moveSelectedNodes(10, 10)

NextDrag == NodesChange \/ MoveSelected \/ SetSelection \/ Undo \/ Redo

SpecDrag == InitLoaded /\ [][NextDrag]_vars

(***************************************************************************)
(* C16 Drag commits once per gesture: while position updates arrive during *)
(* a drag no history snapshot is appended, and the release of the gesture, *)
(* whether it moved one node or several, appends exactly one snapshot.     *)
(***************************************************************************)
C16_DragCommitsOnce ==
  [][lastOp'.op \in {"nodesChange", "moveSelected"} =>
       IF /\ lastOp'.op = "nodesChange"
          /\ \A i \in DOMAIN Arg(lastOp') : Commits(Arg(lastOp')[i])
       THEN /\ historyIndex' = historyIndex + 1
            /\ history' = SubSeq(history, 1, historyIndex + 1)
                            \o <<Snapshot(nodes, edges)>>
       ELSE UNCHANGED <<history, historyIndex>>]_vars

(***************************************************************************)
(* Auto layout: Toolbar.handleAutoLayout                                   *)
(***************************************************************************)
nodeWidth == 160
nodeHeight == 80
horizontalSpacing == 60
verticalSpacing == 80
margin == 50

\* dagre.layout(g) for the graph applyDagreLayout builds: one nodeWidth x
\* nodeHeight node per diagram node, one edge per parentId, rankdir TB,
\* nodesep horizontalSpacing, ranksep verticalSpacing, both margins 50.  The
\* result is the centre of every diagram node.  The graph is whatever the
\* parentIds say, forest or not, and dagre lays it out in these steps:
\*   - g.setEdge creates the node a parentId names when no diagram node has
\*     that id; it has no label, and dagre lays it out as a node of width 0
\*     and height 0 and writes no position back for it;
\*   - an edge from a node to itself is taken out before ranking and keeps a
\*     place of edgesep to the right of its node;
\*   - a cycle is broken by reversing the edge that closes it in a
\*     depth-first walk over the nodes in node order, so the first node of
\*     the cycle in node order stands on top of the cycle;
\*   - ranks, the order within a rank, and the x coordinates of Brandes and
\*     Koepf are those of the forest that is left.
\* Values are bound through singleton sets (The) so that each is computed
\* once.
dagreLayout(ns) ==
  LET ids == NodeIds(ns)
      The(S) == CHOOSE v \in S : TRUE
      SetMax(S) == CHOOSE x \in S : \A y \in S : y <= x
      SetMin(S) == CHOOSE x \in S : \A y \in S : x <= y
      Reverse(s) == [i \in DOMAIN s |-> s[Len(s) + 1 - i]]
      IdsOf(s) == [i \in DOMAIN s |-> s[i].id]
      fuel == Len(ns) + 1
      edgesep == 20
      inputParent(id) == Head(getNodeById(ns, id)).parentId
      index(id) == CHOOSE i \in DOMAIN ns : ns[i].id = id

      \* The nodes setEdge created, after the diagram's nodes and in the
      \* order their edges were set.
      unlabelled == {ns[i].parentId : i \in DOMAIN ns} \ (ids \cup {Null})
      gnodes ==
        IdsOf(ns)
          \o SeqFilter(Dedupe([i \in DOMAIN ns |-> ns[i].parentId]), unlabelled)
      vs == ids \cup unlabelled
      width(v) == IF v \in ids THEN nodeWidth ELSE 0

      \* removeSelfEdges and acyclic: the edge into v is a self edge, or it
      \* is the edge the depth-first walk finds closing a cycle.
      RECURSIVE ancestors(_, _)
      ancestors(id, k) ==
        IF k = 0 \/ id \notin ids THEN {}
        ELSE IF inputParent(id) = Null THEN {}
        ELSE {inputParent(id)} \cup ancestors(inputParent(id), k - 1)
      selfEdge(v) == v \in ids /\ inputParent(v) = v
      reversed(v) ==
        /\ v \in ids
        /\ v \in ancestors(v, fuel)
        /\ \A u \in ancestors(v, fuel) : index(v) <= index(u)

      \* The layout of the forest: parent[v] is the node above v or Null,
      \* successors[v] the nodes below it in the order of their edges.
      position(parent, successors) ==
        LET \* rank: a root has rank 0, a child the rank after its parent's.
            RECURSIVE rank(_, _)
            rank(v, k) ==
              IF k = 0 \/ parent[v] = Null THEN 0
              ELSE 1 + rank(parent[v], k - 1)

            \* order: the depth-first walk of initOrder, from the roots in
            \* the graph's node order and through the children in edge
            \* order; the sweeps that follow find no crossing to remove.
            RECURSIVE initOrderFrom(_, _)
            RECURSIVE initOrderAll(_, _)
            initOrderAll(ws, k) ==
              IF ws = <<>> THEN <<>>
              ELSE initOrderFrom(Head(ws), k) \o initOrderAll(Tail(ws), k)
            initOrderFrom(v, k) ==
              IF k = 0 THEN <<v>>
              ELSE <<v>> \o initOrderAll(successors[v], k - 1)

            \* The layers, top to bottom, each left to right.
            buildLayerMatrix ==
              The({[k \in 1..(SetMax({rank(v, fuel) : v \in vs}) + 1) |->
                      SeqFilter(walk, {v \in vs : rank(v, fuel) = k - 1})] :
                    walk \in
                      {initOrderAll(
                         SeqFilter(gnodes, {v \in vs : parent[v] = Null}),
                         fuel)}})

            \* verticalAlignment: the child a node shares a block with, or
            \* Null.  Going down ("u") the first child of a parent takes
            \* it; going up ("d") a parent takes its median child, the left
            \* one of two.  For "r" the layers are read from the right.
            alignedChild(v, vert, horiz) ==
              LET ws == IF horiz = "r" THEN Reverse(successors[v])
                        ELSE successors[v]
              IN  IF ws = <<>> THEN Null
                  ELSE IF vert = "u" THEN ws[1]
                  ELSE ws[((Len(ws) - 1) \div 2) + 1]

            \* The topmost node of the block of v.
            RECURSIVE blockOf(_, _, _, _)
            blockOf(v, vert, horiz, k) ==
              IF k = 0 \/ parent[v] = Null
                 \/ alignedChild(parent[v], vert, horiz) # v
              THEN v
              ELSE blockOf(parent[v], vert, horiz, k - 1)

            \* sep: between the centres of u and of the node w to its right,
            \* half of each width and nodesep; a self edge of u lies between
            \* them and takes edgesep.
            sep(u, w) ==
              (width(u) + width(w)) \div 2 + horizontalSpacing
                + (IF selfEdge(u) THEN edgesep ELSE 0)

            \* buildBlockGraph: an edge from the block of a node to the
            \* block of its neighbour, weighted by their separation.
            buildBlockGraph(layering, root, horiz) ==
              UNION {{<<root[layering[k][i]], root[layering[k][i + 1]],
                        IF horiz = "r"
                        THEN sep(layering[k][i + 1], layering[k][i])
                        ELSE sep(layering[k][i], layering[k][i + 1])>> :
                        i \in 1..(Len(layering[k]) - 1)} :
                     k \in DOMAIN layering}

            \* horizontalCompaction, first pass: the smallest coordinates.
            RECURSIVE pass1(_, _)
            pass1(blockG, elem) ==
              LET inEdges == {e \in blockG : e[2] = elem}
              IN  IF inEdges = {} THEN 0
                  ELSE SetMax({pass1(blockG, e[1]) + e[3] : e \in inEdges})

            \* horizontalCompaction, second pass: a block moves up to its
            \* right neighbours.
            RECURSIVE pass2(_, _)
            pass2(blockG, elem) ==
              LET outEdges == {e \in blockG : e[1] = elem}
              IN  IF outEdges = {} THEN pass1(blockG, elem)
                  ELSE The({IF x > min THEN x ELSE min :
                              x \in {pass1(blockG, elem)},
                              min \in {SetMin({pass2(blockG, e[2]) - e[3] :
                                                 e \in outEdges})}})

            \* One of the four alignments: a coordinate per node, negated
            \* for "r".
            horizontalCompaction(layering, vert, horiz) ==
              The({The({[v \in vs |->
                           IF horiz = "r" THEN 0 - pass2(blockG, root[v])
                           ELSE pass2(blockG, root[v])] :
                         blockG \in
                           {buildBlockGraph(
                              [k \in DOMAIN layering |->
                                 IF horiz = "r" THEN Reverse(layering[k])
                                 ELSE layering[k]], root, horiz)}}) :
                    root \in {[v \in vs |-> blockOf(v, vert, horiz, fuel)]}})

            alignments ==
              <<[vert |-> "u", horiz |-> "l"], [vert |-> "u", horiz |-> "r"],
                [vert |-> "d", horiz |-> "l"], [vert |-> "d", horiz |-> "r"]>>

            \* findSmallestWidthAlignment and alignCoordinates: the
            \* alignments are moved onto the narrowest of them (the first of
            \* the narrowest, a node counted with its width), left ones by
            \* their smallest centre and right ones by their largest.
            alignCoordinates(xss) ==
              LET lo == [a \in 1..4 |-> SetMin({xss[a][v] : v \in vs})]
                  hi == [a \in 1..4 |-> SetMax({xss[a][v] : v \in vs})]
                  span ==
                    [a \in 1..4 |->
                       SetMax({xss[a][v] + width(v) \div 2 : v \in vs})
                         - SetMin({xss[a][v] - width(v) \div 2 : v \in vs})]
                  alignTo ==
                    SetMin({a \in 1..4 : \A c \in 1..4 : span[a] <= span[c]})
              IN  [a \in 1..4 |->
                     [v \in vs |->
                        xss[a][v] + (IF alignments[a].horiz = "l"
                                     THEN lo[alignTo] - lo[a]
                                     ELSE hi[alignTo] - hi[a])]]

            \* balance: the mean of the two middle coordinates of a node;
            \* twice the mean here.
            balance(xss) ==
              [v \in vs |->
                 xss[1][v] + xss[2][v] + xss[3][v] + xss[4][v]
                   - SetMax({xss[a][v] : a \in 1..4})
                   - SetMin({xss[a][v] : a \in 1..4})]

            positionX ==
              The({The({The({balance(aligned) :
                               aligned \in {alignCoordinates(xss)}}) :
                          xss \in {[a \in 1..4 |->
                                      horizontalCompaction(
                                        layering, alignments[a].vert,
                                        alignments[a].horiz)]}}) :
                     layering \in {buildLayerMatrix}})

            \* positionY: a rank is as high as its highest node, and
            \* ranksep lies between two ranks.  Only the top rank can be
            \* without a diagram node.
            rankTop(r) ==
              IF r = 0 THEN 0
              ELSE (IF \E v \in ids : parent[v] = Null THEN nodeHeight ELSE 0)
                     + verticalSpacing
                     + (r - 1) * (nodeHeight + verticalSpacing)

        \* translateGraph: the leftmost and the topmost node touch the
        \* margins.
        IN  The({[id \in ids |->
                    [x |-> margin
                             + (x[id] - SetMin({x[v] - width(v) : v \in vs}))
                                 \div 2,
                     y |-> margin + rankTop(rank(id, fuel))
                             + nodeHeight \div 2]] :
                  x \in {positionX}})

  IN  The({The({position(parent, successors) :
                  successors \in
                    {[v \in vs |->
                        SeqFilter(IdsOf(ns), {c \in ids : parent[c] = v})]}}) :
             parent \in
               {[v \in vs |->
                   IF v \notin ids \/ selfEdge(v) \/ reversed(v) THEN Null
                   ELSE inputParent(v)]}})

\* One {id, x, y} per node, in node order: the corner of the node whose
\* centre dagre placed.
applyDagreLayout(ns) ==
  CHOOSE positions \in
    {[i \in DOMAIN ns |->
        [id |-> ns[i].id,
         x |-> g[ns[i].id].x - nodeWidth \div 2,
         y |-> g[ns[i].id].y - nodeHeight \div 2]] : g \in {dagreLayout(ns)}} :
    TRUE

handleAutoLayout ==
  /\ nodes # <<>>
  /\ \E positions \in {applyDagreLayout(nodes)} : setNodePositions(positions)

NextLayout ==
  \/ AddRoot \/ AddChild \/ AddSibling \/ Update \/ UpdateMany
  \/ Delete \/ DeleteMany \/ Detach \/ SetSelection \/ handleAutoLayout

SpecLayout == InitLoaded /\ [][NextLayout]_vars

(***************************************************************************)
(* C17 One history entry per discrete edit: every non-drag edit that       *)
(* changes the model (addRoot, addChild, addSibling, update, updateMany,   *)
(* delete, deleteMany, detach, and an auto-layout run ending in the bulk   *)
(* setPositions write) appends exactly one snapshot to the history.        *)
(***************************************************************************)
C17_OneEntryPerEdit ==
  [][(/\ lastOp'.op \in HistoryEdits \cup {"setPositions"}
      /\ nodes' # nodes \/ edges' # edges
      /\ Len(history) < MaxHistory) =>
       /\ history' = SubSeq(history, 1, historyIndex + 1)
                       \o <<Snapshot(nodes, edges)>>
       /\ historyIndex' = historyIndex + 1]_vars

(***************************************************************************)
(* Loading over a session: loadDiagram and Toolbar.handleImportJSON        *)
(***************************************************************************)
\* Files that parse but are no diagram of this editor: a node whose parentId
\* names no node of the file, and an object without settings.
MalformedSet ==
  {[schemaVersion |-> 1,
    nodes |-> <<SavedNode(1, 3, 400, 50)>>,
    edges |-> <<EdgeOf(SavedNode(1, 3, 400, 50))>>,
    settings |-> [name |-> "Imported"]],
   [schemaVersion |-> 1,
    nodes |-> <<SavedNode(1, Null, 400, 50)>>,
    edges |-> <<>>]}

\* parses: JSON.parse(text) returns; data: what it returns
ImportFiles ==
  {[parses |-> FALSE, data |-> [schemaVersion |-> 0]]}
    \cup {[parses |-> TRUE, data |-> d] : d \in LoadSet \cup MalformedSet}

\* Files whose text() may be pending at one time.
MaxReading == 1

\* handleImportJSON creates the input, sets its onchange and calls click():
\* the file dialog opens and the handler returns.  The dialog is modal.
handleImportJSON ==
  /\ ~fileInput.dialog
  /\ fileInput' = [fileInput EXCEPT !.dialog = TRUE]
  /\ lastOp' = Op("importClick", Null, TRUE, FALSE)
  /\ rt' = RtOff
  /\ UNCHANGED <<nodes, edges, selectedNodeId, selectedNodeIds, selectedEdgeId,
                 diagramName, history, historyIndex, nextId, budget, derived,
                 smartEdge, localStorage>>

\* input.onchange up to its await: files?.[0] is read and, where there is a
\* file, file.text() is started; the callback then yields to the event loop.
inputOnChange(files) ==
  /\ fileInput.dialog
  /\ fileInput' = [dialog |-> FALSE,
                   reading |-> IF files = <<>> THEN fileInput.reading
                               ELSE Append(fileInput.reading, files[1])]
  /\ lastOp' = Op("importChosen", files, files # <<>>, FALSE)
  /\ rt' = RtOff
  /\ UNCHANGED <<nodes, edges, selectedNodeId, selectedNodeIds, selectedEdgeId,
                 diagramName, history, historyIndex, nextId, budget, derived,
                 smartEdge, localStorage>>

\* input.onchange after its await, for the i-th pending file:
\* try { loadDiagram(JSON.parse(text)) } catch { alert(...) }
inputOnChangeResumed(i) ==
  LET file == fileInput.reading[i]
  IN  /\ fileInput' =
           [fileInput EXCEPT
              !.reading = SubSeq(@, 1, i - 1) \o SubSeq(@, i + 1, Len(@))]
      /\ IF file.parses
         THEN loadDiagram(file.data)
         ELSE /\ lastOp' = Op("import", file.data, FALSE, TRUE)
              /\ rt' = RtOff
              /\ UNCHANGED <<nodes, edges, selectedNodeId, selectedNodeIds,
                             selectedEdgeId, diagramName, history, historyIndex,
                             nextId, budget, derived, smartEdge, localStorage>>

ImportJSON == Len(fileInput.reading) < MaxReading /\ handleImportJSON
ChooseFile ==
  \E files \in {<<>>} \cup {<<file>> : file \in ImportFiles} :
    inputOnChange(files)
FileRead == \E i \in DOMAIN fileInput.reading : inputOnChangeResumed(i)

SetDiagramName == \E name \in {"Q3 plan", "Imported"} : setDiagramName(name)

\* The constructed store in a browser where an earlier session, or another
\* program of the same origin, left in localStorage: nothing, text that is no
\* JSON, a diagram, or an object without settings.
InitStored ==
  /\ nodes = <<>>
  /\ edges = <<>>
  /\ selectedNodeId = Null
  /\ selectedNodeIds = <<>>
  /\ selectedEdgeId = NullEdge
  /\ diagramName = "Untitled Diagram"
  /\ history = <<>>
  /\ historyIndex = -1
  /\ nextId = 0
  /\ budget = MaxSaves - 1
  /\ lastOp = Op("create", Null, TRUE, FALSE)
  /\ rt = RtFresh(<<>>, <<>>)
  /\ derived = <<>>
  /\ smartEdge = NoSmartEdge
  /\ localStorage \in
       {NoItem, [kind |-> "text"],
        JSONstringify(Diagram(<<SavedNode(1, Null, 400, 50),
                                SavedNode(2, 1, 400, 170)>>, "Stored")),
        JSONstringify([schemaVersion |-> 1,
                       nodes |-> <<SavedNode(1, Null, 400, 50)>>,
                       edges |-> <<>>])}
  /\ fileInput = NoFileInput

\* Loading over a session that selected nodes and edges.
NextLoad ==
  \/ AddRoot \/ AddChild \/ SetSelection \/ SelectEdge \/ Load \/ Clear
  \/ SetDiagramName \/ loadFromLocalStorage

SpecLoad == InitStored /\ [][NextLoad]_vars

\* Importing a file while the session goes on.
NextImport ==
  \/ AddRoot \/ AddChild \/ Load \/ ImportJSON \/ ChooseFile \/ FileRead
  \/ loadFromLocalStorage

SpecImport == InitStored /\ [][NextImport]_vars

(***************************************************************************)
(* C18 loadDiagram fully replaces the store state and resets the history:  *)
(* after loadDiagram(d), nodes = d.nodes, edges = d.edges, the name is     *)
(* d.settings.name, the history is empty with cursor -1, selectedNodeId is *)
(* null, selectedNodeIds is empty and selectedEdgeId is null.              *)
(***************************************************************************)
C18_LoadReplacesState ==
  (lastOp.op = "load" /\ ~lastOp.threw) =>
     /\ nodes = Arg(lastOp).nodes
     /\ edges = Arg(lastOp).edges
     /\ diagramName = Arg(lastOp).settings.name
     /\ history = <<>>
     /\ historyIndex = -1
     /\ selectedNodeId = Null
     /\ selectedNodeIds = <<>>
     /\ selectedEdgeId = NullEdge

\* Data that passes validation: the three parts are present and every
\* parentId names a node of the data.
Validates(data) ==
  /\ {"nodes", "edges", "settings"} \subseteq DOMAIN data
  /\ \A n \in Range(data.nodes) :
       n.parentId = Null \/ n.parentId \in NodeIds(data.nodes)

(***************************************************************************)
(* C19 Malformed load is rejected: when loadDiagram, called directly,      *)
(* through loadFromLocalStorage or through the JSON import, receives data  *)
(* that fails validation (text that does not parse, an object lacking a    *)
(* part, a parentId naming a missing node), the nodes, edges, name,        *)
(* selection and history keep their prior values.                          *)
(***************************************************************************)
C19_MalformedLoadRejected ==
  [][(\/ lastOp'.op = "import"
      \/ lastOp'.op = "loadFromLocalStorage" /\ lastOp'.threw
      \/ lastOp'.op = "load" /\ ~Validates(Arg(lastOp'))) =>
       UNCHANGED <<nodes, edges, diagramName, selectedNodeId, selectedNodeIds,
                   selectedEdgeId, history, historyIndex>>]_vars

(***************************************************************************)
(* SmartEdge: the orthogonal router that avoids nodes                      *)
(***************************************************************************)
MaxObstacles == 2

step == 15
maxOffset == 400

Min(a, b) == IF a <= b THEN a ELSE b
Abs(a) == IF a >= 0 THEN a ELSE -a

\* A React Flow node; width and height 0 stand for "not set, not measured".
RfNode(id, x, y) ==
  [id |-> id, position |-> [x |-> x, y |-> y], width |-> 0, height |-> 0]

getNodeBounds(ns, excludeIds) ==
  LET kept == SeqFilter(ns, {n \in Range(ns) : n.id \notin excludeIds})
  IN  [i \in DOMAIN kept |->
         LET n == kept[i]
             width == IF n.width # 0 THEN n.width ELSE 180
             height == IF n.height # 0 THEN n.height ELSE 100
         IN  [id |-> n.id,
              left |-> n.position.x - 5,
              right |-> n.position.x + width + 5,
              top |-> n.position.y - 5,
              bottom |-> n.position.y + height + 5,
              centerX |-> n.position.x + width \div 2,
              centerY |-> n.position.y + height \div 2]]

hLineIntersectsNodes(y, x1, x2, ns) ==
  LET minX == Min(x1, x2)
      maxX == Max(x1, x2)
  IN  \E n \in Range(ns) :
        y >= n.top /\ y <= n.bottom /\ maxX >= n.left /\ minX <= n.right

vLineIntersectsNodes(x, y1, y2, ns) ==
  LET minY == Min(y1, y2)
      maxY == Max(y1, y2)
  IN  \E n \in Range(ns) :
        x >= n.left /\ x <= n.right /\ maxY >= n.top /\ minY <= n.bottom

\* Variant: an exhausted search returns the last y it tried.
RECURSIVE findClearYFromLastTried(_, _, _, _, _, _, _)
findClearYFromLastTried(x1, x2, preferredY, ns, searchUp, searchDown, offset) ==
  IF offset > maxOffset
  THEN (IF searchUp THEN preferredY - (offset - step)
        ELSE preferredY + (offset - step))
  ELSE IF searchUp /\ ~hLineIntersectsNodes(preferredY - offset, x1, x2, ns)
       THEN preferredY - offset
  ELSE IF searchDown /\ ~hLineIntersectsNodes(preferredY + offset, x1, x2, ns)
       THEN preferredY + offset
  ELSE findClearYFromLastTried(x1, x2, preferredY, ns, searchUp, searchDown,
                               offset + step)

\* the for loop of findClearY, from a given offset on
RECURSIVE findClearYFrom(_, _, _, _, _, _, _)
findClearYFrom(x1, x2, preferredY, ns, searchUp, searchDown, offset) ==
  IF offset > maxOffset THEN preferredY
  ELSE IF searchUp /\ ~hLineIntersectsNodes(preferredY - offset, x1, x2, ns)
       THEN preferredY - offset
  ELSE IF searchDown /\ ~hLineIntersectsNodes(preferredY + offset, x1, x2, ns)
       THEN preferredY + offset
  ELSE findClearYFrom(x1, x2, preferredY, ns, searchUp, searchDown,
                      offset + step)

findClearY(x1, x2, preferredY, ns, searchUp, searchDown) ==
  IF ~hLineIntersectsNodes(preferredY, x1, x2, ns) THEN preferredY
  ELSE findClearYFrom(x1, x2, preferredY, ns, searchUp, searchDown, step)

\* the for loop of findClearX, from a given offset on
RECURSIVE findClearXFrom(_, _, _, _, _)
findClearXFrom(y1, y2, preferredX, ns, offset) ==
  IF offset > maxOffset THEN preferredX
  ELSE IF ~vLineIntersectsNodes(preferredX - offset, y1, y2, ns)
       THEN preferredX - offset
  ELSE IF ~vLineIntersectsNodes(preferredX + offset, y1, y2, ns)
       THEN preferredX + offset
  ELSE findClearXFrom(y1, y2, preferredX, ns, offset + step)

findClearX(y1, y2, preferredX, ns) ==
  IF ~vLineIntersectsNodes(preferredX, y1, y2, ns) THEN preferredX
  ELSE findClearXFrom(y1, y2, preferredX, ns, step)

\* The commands of an SVG path; x1, y1 is the control point of a Q command.
MoveTo(x, y) == [cmd |-> "M", x1 |-> x, y1 |-> y, x |-> x, y |-> y]
LineTo(x, y) == [cmd |-> "L", x1 |-> x, y1 |-> y, x |-> x, y |-> y]
QuadTo(x1, y1, x, y) == [cmd |-> "Q", x1 |-> x1, y1 |-> y1, x |-> x, y |-> y]

\* points.map((p, i) => `${i === 0 ? 'M' : 'L'} ${p.x} ${p.y}`)
PointsToPath(points) ==
  [i \in DOMAIN points |->
     IF i = 1 THEN MoveTo(points[i].x, points[i].y)
     ELSE LineTo(points[i].x, points[i].y)]

\* Variant: the bar is put half way down the gap.
midYHalfGap(sourceY, targetY) ==
  LET goingDown == targetY > sourceY
      gap == IF goingDown THEN targetY - sourceY ELSE sourceY - targetY
  IN  IF goingDown THEN sourceY + gap \div 2 ELSE sourceY - gap \div 2

\* midY of generateSmartPath; gap * 0.3 is exact for the gaps used here,
\* which are multiples of ten.
midY(sourceY, targetY) ==
  LET goingDown == targetY > sourceY
      gap == IF goingDown THEN targetY - sourceY ELSE sourceY - targetY
  IN  IF goingDown THEN sourceY + Min((gap * 3) \div 10, 30)
      ELSE sourceY - Min((gap * 3) \div 10, 30)

clearMidY(sourceX, sourceY, targetX, targetY, ns) ==
  findClearY(Min(sourceX, targetX), Max(sourceX, targetX),
             midY(sourceY, targetY), ns,
             ~(targetY > sourceY), targetY > sourceY)

generateSmartPath(sourceX, sourceY, targetX, targetY, ns, borderRadius) ==
  LET r == Min(borderRadius, 8)
      goingDown == targetY > sourceY
      midy == clearMidY(sourceX, sourceY, targetX, targetY, ns)
      sourceVerticalClear == ~vLineIntersectsNodes(sourceX, sourceY, midy, ns)
      targetVerticalClear == ~vLineIntersectsNodes(targetX, midy, targetY, ns)
      dir == IF sourceX < targetX THEN 1 ELSE -1
      vDir == IF goingDown THEN 1 ELSE -1
      clearSourceX == findClearX(sourceY, midy, sourceX, ns)
      clearTargetX == findClearX(midy, targetY, targetX, ns)
      exitY == sourceY + (IF goingDown THEN 15 ELSE -15)
      entryY == targetY + (IF goingDown THEN -15 ELSE 15)
  IN  IF Abs(sourceX - targetX) < 10
      THEN <<MoveTo(sourceX, sourceY), LineTo(targetX, targetY)>>
      ELSE IF sourceVerticalClear /\ targetVerticalClear
      THEN <<MoveTo(sourceX, sourceY),
             LineTo(sourceX, midy - r * vDir),
             QuadTo(sourceX, midy, sourceX + r * dir, midy),
             LineTo(targetX - r * dir, midy),
             QuadTo(targetX, midy, targetX, midy + r * vDir),
             LineTo(targetX, targetY)>>
      ELSE PointsToPath(
             <<[x |-> sourceX, y |-> sourceY]>>
             \o (IF clearSourceX # sourceX
                 THEN <<[x |-> sourceX, y |-> exitY],
                        [x |-> clearSourceX, y |-> exitY]>>
                 ELSE <<>>)
             \o <<[x |-> clearSourceX, y |-> midy],
                  [x |-> clearTargetX, y |-> midy]>>
             \o (IF clearTargetX # targetX
                 THEN <<[x |-> clearTargetX, y |-> entryY],
                        [x |-> targetX, y |-> entryY]>>
                 ELSE <<>>)
             \o <<[x |-> targetX, y |-> targetY]>>)

\* SmartEdge(props): nodeBounds and path are recomputed from the props and
\* from the nodes React Flow holds; router records which component drew it.
renderSmartEdge ==
  /\ smartEdge.path = <<>>
  /\ LET nodeBounds == getNodeBounds(smartEdge.rfNodes,
                                     {smartEdge.source, smartEdge.target})
     IN  smartEdge' =
           [smartEdge EXCEPT
              !.router = "smart",
              !.nodeBounds = nodeBounds,
              !.path = generateSmartPath(smartEdge.sourceX, smartEdge.sourceY,
                                         smartEdge.targetX, smartEdge.targetY,
                                         nodeBounds, smartEdge.borderRadius)]
  /\ UNCHANGED <<nodes, edges, selectedNodeId, selectedNodeIds, selectedEdgeId,
                 diagramName, history, historyIndex, nextId, budget, lastOp,
                 rt, derived, localStorage, fileInput>>

\* Where the other nodes of the canvas lie.
ObstaclePositions ==
  {[x |-> x, y |-> y] : x \in {-120, 65, 250}, y \in {-60, 115, 200}}

ObstacleLists ==
  UNION {[1..n -> ObstaclePositions] : n \in 0..MaxObstacles}

\* An edge from node 1 (anchor at the middle of its bottom side) to node 2
\* (anchor at the middle of its top side), among up to MaxObstacles others.
SmartEdgeProps ==
  {[source |-> 1, target |-> 2,
    sourceX |-> 100, sourceY |-> 100, targetX |-> tx, targetY |-> ty,
    spacing |-> 25, borderRadius |-> 4,
    rfNodes |-> <<RfNode(1, 10, 0), RfNode(2, tx - 90, ty)>>
                  \o [i \in DOMAIN obs |-> RfNode(i + 2, obs[i].x, obs[i].y)],
    router |-> "none", nodeBounds |-> <<>>, path |-> <<>>] :
     tx \in {100, 400}, ty \in {300, -100}, obs \in ObstacleLists}

InitSmartEdge ==
  /\ nodes = <<>>
  /\ edges = <<>>
  /\ selectedNodeId = Null
  /\ selectedNodeIds = <<>>
  /\ selectedEdgeId = NullEdge
  /\ diagramName = "Untitled Diagram"
  /\ history = <<>>
  /\ historyIndex = -1
  /\ nextId = 0
  /\ budget = 0
  /\ lastOp = Op("create", Null, TRUE, FALSE)
  /\ rt = RtOff
  /\ derived = <<>>
  /\ smartEdge \in SmartEdgeProps
  /\ localStorage = NoItem
  /\ fileInput = NoFileInput

NextSmartEdge == renderSmartEdge

SpecSmartEdge == InitSmartEdge /\ [][NextSmartEdge]_vars

\* The corner points of a path: a Q command bends at its control point.
RECURSIVE PathVertices(_)
PathVertices(path) ==
  IF path = <<>> THEN <<>>
  ELSE LET c == Head(path)
       IN  (IF c.cmd = "Q" THEN <<[x |-> c.x1, y |-> c.y1]>> ELSE <<>>)
             \o <<[x |-> c.x, y |-> c.y]>> \o PathVertices(Tail(path))

SegmentHits(p, q, ns) ==
  \E n \in Range(ns) :
    /\ Max(p.x, q.x) >= n.left /\ Min(p.x, q.x) <= n.right
    /\ Max(p.y, q.y) >= n.top /\ Min(p.y, q.y) <= n.bottom

\* Every search the router ran for this edge ended on a clear coordinate.
SearchesSucceeded(e) ==
  LET ns == e.nodeBounds
      my == clearMidY(e.sourceX, e.sourceY, e.targetX, e.targetY, ns)
      sx == findClearX(e.sourceY, my, e.sourceX, ns)
      tx == findClearX(my, e.targetY, e.targetX, ns)
      legsClear == /\ ~vLineIntersectsNodes(e.sourceX, e.sourceY, my, ns)
                   /\ ~vLineIntersectsNodes(e.targetX, my, e.targetY, ns)
  IN  /\ ~hLineIntersectsNodes(my, e.sourceX, e.targetX, ns)
      /\ \/ legsClear
         \/ /\ ~vLineIntersectsNodes(sx, e.sourceY, my, ns)
            /\ ~vLineIntersectsNodes(tx, my, e.targetY, ns)

(***************************************************************************)
(* C20 Router collision avoidance: for an anchor pair that is routed with  *)
(* a bar (the anchors are not vertically aligned), if every search the     *)
(* router ran ended on a clear coordinate, then no segment of the emitted  *)
(* path (bar, legs, and in the multi-bend fallback the extended bar, the   *)
(* exit and entry stubs and the jogs) intersects an obstacle rectangle.    *)
(***************************************************************************)
C20_RouterAvoidsObstacles ==
  (/\ smartEdge.path # <<>>
   /\ Abs(smartEdge.sourceX - smartEdge.targetX) >= 10
   /\ SearchesSucceeded(smartEdge)) =>
     LET v == PathVertices(smartEdge.path)
     IN  \A i \in 1..(Len(v) - 1) :
           ~SegmentHits(v[i], v[i + 1], smartEdge.nodeBounds)

(***************************************************************************)
(* The org-chart edge (the second SmartEdge component): straight down,     *)
(* horizontal bar, straight down                                           *)
(***************************************************************************)
orgStep == 10
orgMaxOffset == 300

RfNodeSized(id, x, y, width, height) ==
  [id |-> id, position |-> [x |-> x, y |-> y], width |-> width,
   height |-> height]

\* getNodeBounds of the org-chart edge: no centerX, centerY
orgGetNodeBounds(ns, excludeIds) ==
  LET kept == SeqFilter(ns, {n \in Range(ns) : n.id \notin excludeIds})
  IN  [i \in DOMAIN kept |->
         LET n == kept[i]
             width == IF n.width # 0 THEN n.width ELSE 180
             height == IF n.height # 0 THEN n.height ELSE 100
         IN  [id |-> n.id,
              left |-> n.position.x - 5,
              right |-> n.position.x + width + 5,
              top |-> n.position.y - 5,
              bottom |-> n.position.y + height + 5]]

\* the for loop of the org-chart findClearY, from a given offset on
RECURSIVE orgFindClearYFrom(_, _, _, _, _, _)
orgFindClearYFrom(x1, x2, startY, ns, preferUp, offset) ==
  LET first == IF preferUp THEN startY - offset ELSE startY + offset
      second == IF preferUp THEN startY + offset ELSE startY - offset
  IN  IF offset > orgMaxOffset THEN startY
      ELSE IF ~hLineIntersectsNodes(first, x1, x2, ns) THEN first
      ELSE IF ~hLineIntersectsNodes(second, x1, x2, ns) THEN second
      ELSE orgFindClearYFrom(x1, x2, startY, ns, preferUp, offset + orgStep)

orgFindClearY(x1, x2, startY, ns, preferUp) ==
  IF ~hLineIntersectsNodes(startY, x1, x2, ns) THEN startY
  ELSE orgFindClearYFrom(x1, x2, startY, ns, preferUp, orgStep)

\* barY before the search; (targetY - sourceY) * 0.4 is exact for the gaps
\* used here, which are multiples of five.
barY(sourceY, targetY, spacing) ==
  IF targetY > sourceY
  THEN Min(sourceY + spacing, sourceY + (2 * (targetY - sourceY)) \div 5)
  ELSE Max(sourceY - spacing, sourceY - (2 * (sourceY - targetY)) \div 5)

clearBarY(sourceX, sourceY, targetX, targetY, ns, spacing) ==
  orgFindClearY(Min(sourceX, targetX), Max(sourceX, targetX),
                barY(sourceY, targetY, spacing), ns, ~(targetY > sourceY))

\* The path of the org-chart edge.  rClamped halves a length, so the path is
\* given in half pixels: every coordinate is twice the number the program
\* prints, and rClamped2 is twice rClamped.
generateOrgChartPath(sourceX, sourceY, targetX, targetY, ns, spacing, borderRadius) ==
  LET r == Min(borderRadius, 6)
      goingDown == targetY > sourceY
      bar == clearBarY(sourceX, sourceY, targetX, targetY, ns, spacing)
      dir == IF targetX > sourceX THEN 1 ELSE -1
      rClamped2 == Min(2 * r, Min(Abs(bar - sourceY), Abs(targetY - bar)))
      vDir == IF goingDown THEN 1 ELSE -1
  IN  IF Abs(sourceX - targetX) < 3
      THEN <<MoveTo(2 * sourceX, 2 * sourceY), LineTo(2 * targetX, 2 * targetY)>>
      ELSE <<MoveTo(2 * sourceX, 2 * sourceY),
             LineTo(2 * sourceX, 2 * bar - rClamped2 * vDir),
             QuadTo(2 * sourceX, 2 * bar, 2 * sourceX + rClamped2 * dir, 2 * bar),
             LineTo(2 * targetX - rClamped2 * dir, 2 * bar),
             QuadTo(2 * targetX, 2 * bar, 2 * targetX, 2 * bar + rClamped2 * vDir),
             LineTo(2 * targetX, 2 * targetY)>>

renderOrgChartEdge ==
  /\ smartEdge.path = <<>>
  /\ LET nodeBounds == orgGetNodeBounds(smartEdge.rfNodes,
                                        {smartEdge.source, smartEdge.target})
     IN  smartEdge' =
           [smartEdge EXCEPT
              !.router = "orgChart",
              !.nodeBounds = nodeBounds,
              !.path = generateOrgChartPath(
                         smartEdge.sourceX, smartEdge.sourceY,
                         smartEdge.targetX, smartEdge.targetY,
                         nodeBounds, smartEdge.spacing, smartEdge.borderRadius)]
  /\ UNCHANGED <<nodes, edges, selectedNodeId, selectedNodeIds, selectedEdgeId,
                 diagramName, history, historyIndex, nextId, budget, lastOp,
                 rt, derived, localStorage, fileInput>>

\* The other nodes of the canvas: nodes of the default size near the source,
\* on the target leg, above and beside the edge, and a tall group box that
\* blocks every bar the searches try.
ObstacleNodes ==
  {[x |-> 65, y |-> 115, width |-> 0, height |-> 0],
   [x |-> 310, y |-> 180, width |-> 0, height |-> 0],
   [x |-> 250, y |-> -60, width |-> 0, height |-> 0],
   [x |-> 250, y |-> 200, width |-> 0, height |-> 0],
   [x |-> -120, y |-> 200, width |-> 0, height |-> 0],
   [x |-> 150, y |-> -400, width |-> 100, height |-> 1000]}

ObstacleNodeLists ==
  UNION {[1..n -> ObstacleNodes] : n \in 0..MaxObstacles}

EdgeProps(sx, sy, tx, ty, radius, others) ==
  [source |-> 1, target |-> 2,
   sourceX |-> sx, sourceY |-> sy, targetX |-> tx, targetY |-> ty,
   spacing |-> 25, borderRadius |-> radius,
   rfNodes |-> <<RfNodeSized(1, sx - 80, sy - 80, 160, 80),
                 RfNodeSized(2, tx - 80, ty, 160, 80)>>
                 \o [i \in DOMAIN others |->
                       RfNodeSized(i + 2, others[i].x, others[i].y,
                                   others[i].width, others[i].height)],
   router |-> "none", nodeBounds |-> <<>>, path |-> <<>>]

\* Edges from (100, 100): aligned, nearly aligned, just off the tolerances
\* and far targets, below at a large and at a small gap and above; and the
\* edge from A (100, 0) to B (300, 200) with node C at (150, 90) between.
RouterProps ==
  {EdgeProps(100, 100, tx, ty, radius, others) :
     tx \in {100, 102, 105, 112, 400}, ty \in {300, 110, -100},
     radius \in {4, 8}, others \in ObstacleNodeLists}
  \cup {EdgeProps(180, 80, 380, 200, 4,
                  <<[x |-> 150, y |-> 90, width |-> 160, height |-> 80]>>)}

InitRouter ==
  /\ nodes = <<>>
  /\ edges = <<>>
  /\ selectedNodeId = Null
  /\ selectedNodeIds = <<>>
  /\ selectedEdgeId = NullEdge
  /\ diagramName = "Untitled Diagram"
  /\ history = <<>>
  /\ historyIndex = -1
  /\ nextId = 0
  /\ budget = 0
  /\ lastOp = Op("create", Null, TRUE, FALSE)
  /\ rt = RtOff
  /\ derived = <<>>
  /\ smartEdge \in RouterProps
  /\ localStorage = NoItem
  /\ fileInput = NoFileInput

NextRouter == renderSmartEdge \/ renderOrgChartEdge

SpecRouter == InitRouter /\ [][NextRouter]_vars

\* A segment between two path points, in units of 1/k pixel, meets a rectangle
SegmentHitsScaled(p, q, ns, k) ==
  \E n \in Range(ns) :
    /\ Max(p.x, q.x) >= k * n.left /\ Min(p.x, q.x) <= k * n.right
    /\ Max(p.y, q.y) >= k * n.top /\ Min(p.y, q.y) <= k * n.bottom

\* The unit of the path coordinates: half pixels for the org-chart edge
PathScale(e) == IF e.router = "orgChart" THEN 2 ELSE 1

(***************************************************************************)
(* C21 Router collision avoidance (generateOrgChartPath): for an anchor    *)
(* pair routed with a bar, if the bar search ended on a clear y, then the  *)
(* horizontal bar and both vertical legs of the returned path intersect no *)
(* obstacle rectangle.                                                     *)
(***************************************************************************)
C21_OrgChartAvoidsObstacles ==
  (/\ smartEdge.router = "orgChart"
   /\ Abs(smartEdge.sourceX - smartEdge.targetX) >= 3
   /\ ~hLineIntersectsNodes(
         clearBarY(smartEdge.sourceX, smartEdge.sourceY, smartEdge.targetX,
                   smartEdge.targetY, smartEdge.nodeBounds, smartEdge.spacing),
         smartEdge.sourceX, smartEdge.targetX, smartEdge.nodeBounds)) =>
     LET v == PathVertices(smartEdge.path)
     IN  \A i \in 1..(Len(v) - 1) :
           ~SegmentHitsScaled(v[i], v[i + 1], smartEdge.nodeBounds, 2)

\* The scenario edge: from A's bottom centre to B's top centre, C between.
IsScenario(e) ==
  /\ e.sourceX = 180 /\ e.sourceY = 80 /\ e.targetX = 380 /\ e.targetY = 200
  /\ e.path # <<>>

\* The y of the bar the router settled on for the edge
BarOf(e) ==
  IF e.router = "orgChart"
  THEN clearBarY(e.sourceX, e.sourceY, e.targetX, e.targetY, e.nodeBounds,
                 e.spacing)
  ELSE clearMidY(e.sourceX, e.sourceY, e.targetX, e.targetY, e.nodeBounds)

\* The path has a horizontal segment at y
HasBarAt(e, y) ==
  LET v == PathVertices(e.path)
  IN  \E i \in 1..(Len(v) - 1) :
        /\ v[i].y = PathScale(e) * y /\ v[i + 1].y = PathScale(e) * y
        /\ v[i].x # v[i + 1].x

(***************************************************************************)
(* C22 Router scenario: with A at (100, 0), B at (300, 200) and C at       *)
(* (150, 90), all 160x80, the edge from (180, 80) to (380, 200) has its    *)
(* horizontal bar at a y >= 170, below C's bottom edge, in each router     *)
(* variant.                                                                *)
(***************************************************************************)
C22_ScenarioBarBelowObstacle ==
  IsScenario(smartEdge) =>
    /\ HasBarAt(smartEdge, BarOf(smartEdge))
    /\ BarOf(smartEdge) >= 170

\* The bar y a router starts from for an edge, before any search, written
\* out from the routing rule: 0.3 of the gap, at most 30, from the source
\* (smart edge); the spacing, at most 0.4 of the gap (org-chart edge).
CandidateY(e) ==
  LET gap == Abs(e.targetY - e.sourceY)
      off == IF e.router = "orgChart"
             THEN (IF e.spacing <= (2 * gap) \div 5 THEN e.spacing
                   ELSE (2 * gap) \div 5)
             ELSE (IF (3 * gap) \div 10 <= 30 THEN (3 * gap) \div 10 ELSE 30)
  IN  IF e.targetY > e.sourceY THEN e.sourceY + off ELSE e.sourceY - off

Tolerance(e) == IF e.router = "orgChart" THEN 3 ELSE 10

NoObstacles(e) == e.path # <<>> /\ e.nodeBounds = <<>>

\* The path is the one segment from the source anchor to the target anchor
IsDirect(e) ==
  LET k == PathScale(e)
  IN  e.path = <<MoveTo(k * e.sourceX, k * e.sourceY),
                 LineTo(k * e.targetX, k * e.targetY)>>

\* The path goes from the source anchor along x = sourceX, then along
\* y = bar, then along x = targetX to the target anchor, bending only at
\* (sourceX, bar) and (targetX, bar).
IsThreeSegment(e, bar) ==
  LET k == PathScale(e)
      p == e.path
      v == PathVertices(p)
  IN  /\ Len(p) = 6
      /\ <<p[1].cmd, p[2].cmd, p[3].cmd, p[4].cmd, p[5].cmd, p[6].cmd>>
           = <<"M", "L", "Q", "L", "Q", "L">>
      /\ v[1] = [x |-> k * e.sourceX, y |-> k * e.sourceY]
      /\ v[8] = [x |-> k * e.targetX, y |-> k * e.targetY]
      /\ v[2].x = k * e.sourceX
      /\ v[3] = [x |-> k * e.sourceX, y |-> k * bar]
      /\ v[4].y = k * bar
      /\ v[5].y = k * bar
      /\ v[6] = [x |-> k * e.targetX, y |-> k * bar]
      /\ v[7].x = k * e.targetX

(***************************************************************************)
(* C23 Router no-obstacle case: with an empty obstacle set the router      *)
(* returns the direct source-to-target segment when |sourceX - targetX| is *)
(* below the tolerance, and otherwise the 3-segment path whose bar is at   *)
(* the unmodified candidate y; no search moves the bar and the multi-bend  *)
(* fallback is not taken.                                                  *)
(***************************************************************************)
C23_NoObstacleCanonical ==
  NoObstacles(smartEdge) =>
    IF Abs(smartEdge.sourceX - smartEdge.targetX) < Tolerance(smartEdge)
    THEN IsDirect(smartEdge)
    ELSE IsThreeSegment(smartEdge, CandidateY(smartEdge))

C23_Witness ==
  /\ NoObstacles(smartEdge)
  /\ smartEdge.router = "smart"
  /\ smartEdge.targetX = 400
  /\ smartEdge.targetY = 110
  /\ IsThreeSegment(smartEdge, 103)

\* The offsets a search tries: multiples of the step up to the largest offset
Offsets(stepSize, largest) ==
  {stepSize * i : i \in 1..(largest \div stepSize)}

\* A search that started at start and could try the coordinates of tried
\* ended as promised: on a clear coordinate it could try, or on start when
\* nothing it could try is clear.
EndedWell(result, start, tried, blocked(_)) ==
  \/ result = start /\ ~blocked(start)
  \/ result \in tried /\ ~blocked(result)
  \/ result = start /\ \A t \in tried : blocked(t)

\* The bar search of the edge ended well
BarSearchEndedWell(e) ==
  LET ns == e.nodeBounds
      start == CandidateY(e)
      down == e.targetY > e.sourceY
      blocked(y) == hLineIntersectsNodes(y, e.sourceX, e.targetX, ns)
      tried == IF e.router = "orgChart"
               THEN {start + o : o \in Offsets(10, 300)}
                      \cup {start - o : o \in Offsets(10, 300)}
               ELSE IF down THEN {start + o : o \in Offsets(15, 400)}
               ELSE {start - o : o \in Offsets(15, 400)}
  IN  EndedWell(BarOf(e), start, tried, blocked)

\* A leg search of the smart edge, for the leg at x between y1 and y2
LegSearchEndedWell(e, x, y1, y2) ==
  LET ns == e.nodeBounds
      blocked(c) == vLineIntersectsNodes(c, y1, y2, ns)
      tried == {x + o : o \in Offsets(15, 400)}
                 \cup {x - o : o \in Offsets(15, 400)}
  IN  EndedWell(findClearX(y1, y2, x, ns), x, tried, blocked)

(***************************************************************************)
(* C24 Router best-effort totality: every bar and leg search ends within   *)
(* its bound, on a clear coordinate or, if there is none within the bound, *)
(* on the original candidate; and the path returned always starts at the   *)
(* source anchor and ends at the target anchor.                            *)
(***************************************************************************)
C24_RouterTotal ==
  smartEdge.path # <<>> =>
    LET e == smartEdge
        k == PathScale(e)
        p == e.path
    IN  /\ p[1] = MoveTo(k * e.sourceX, k * e.sourceY)
        /\ p[Len(p)] = LineTo(k * e.targetX, k * e.targetY)
        /\ \A i \in 2..Len(p) : p[i].cmd \in {"L", "Q"}
        /\ BarSearchEndedWell(e)
        /\ e.router = "smart" =>
             /\ LegSearchEndedWell(e, e.sourceX, e.sourceY, BarOf(e))
             /\ LegSearchEndedWell(e, e.targetX, BarOf(e), e.targetY)

\* The bar search of a smart edge ran out: the bar stays on the blocked
\* candidate and the edge is drawn all the same.
C24_Witness ==
  /\ smartEdge.router = "smart"
  /\ smartEdge.targetX = 400
  /\ smartEdge.path # <<>>
  /\ BarOf(smartEdge) = CandidateY(smartEdge)
  /\ hLineIntersectsNodes(BarOf(smartEdge), smartEdge.sourceX,
                          smartEdge.targetX, smartEdge.nodeBounds)
  /\ smartEdge.path[Len(smartEdge.path)] = LineTo(400, smartEdge.targetY)

(***************************************************************************)
(* C25 Orthogonal paths only: every straight segment of every path the     *)
(* routers return is exactly horizontal or exactly vertical, also where    *)
(* 0 < |sourceX - targetX| < tolerance.                                    *)
(***************************************************************************)
C25_OrthogonalSegments ==
  \A i \in 2..Len(smartEdge.path) :
    smartEdge.path[i].cmd = "L" =>
      \/ smartEdge.path[i].x = smartEdge.path[i - 1].x
      \/ smartEdge.path[i].y = smartEdge.path[i - 1].y

\* The path has the shape of the 3-segment path with rounded corners
IsRounded(e) ==
  /\ Len(e.path) = 6
  /\ e.path[3].cmd = "Q"
  /\ e.path[5].cmd = "Q"

\* The cap of the corner radius: Math.min(borderRadius, 8) resp. 6
RadiusCap(e) == IF e.router = "orgChart" THEN 6 ELSE 8

(***************************************************************************)
(* C26 Corner rounding is bounded by the adjacent segments: in the         *)
(* 3-segment path the corner radius is at most the cap and at most the     *)
(* length of the source leg, of the bar and of the target leg; the first   *)
(* leg does not overshoot past the source anchor and the two corner points *)
(* on the bar do not cross each other.                                     *)
(***************************************************************************)
C26_RoundingBounded ==
  IsRounded(smartEdge) =>
    LET e == smartEdge
        k == PathScale(e)
        p == e.path
        bar == p[3].y1
        radius == Abs(p[3].x - p[3].x1)
        dir == IF e.targetX > e.sourceX THEN 1 ELSE -1
        vDir == IF e.targetY > e.sourceY THEN 1 ELSE -1
    IN  /\ radius <= k * RadiusCap(e)
        /\ radius <= Abs(bar - k * e.sourceY)
        /\ radius <= k * Abs(e.targetX - e.sourceX)
        /\ radius <= Abs(k * e.targetY - bar)
        /\ vDir * (p[2].y - k * e.sourceY) >= 0
        /\ dir * (p[4].x - p[3].x) >= 0

(***************************************************************************)
(* saveDiagram, and loading what it returned                               *)
(***************************************************************************)
\* const data = saveDiagram()
callSaveDiagram ==
  /\ lastOp' = Op("save", saveDiagram, TRUE, FALSE)
  /\ UNCHANGED <<nodes, edges, selectedNodeId, selectedNodeIds, selectedEdgeId,
                 diagramName, history, historyIndex, nextId, budget, rt,
                 derived, smartEdge, localStorage, fileInput>>

Save == callSaveDiagram
Reload == loadDiagram(saveDiagram) /\ UNCHANGED fileInput

NextSave ==
  \/ AddChild \/ Update \/ Detach \/ SetPositions \/ Save \/ Reload

SpecSave == InitLoaded /\ [][NextSave]_vars

(***************************************************************************)
(* C27 Save/load round-trip: in any store state loadDiagram(saveDiagram()) *)
(* leaves nodes (with style and position), edges and the diagram name as   *)
(* they were; saveDiagram changes nothing in the store and reports         *)
(* schemaVersion 1.                                                        *)
(***************************************************************************)
C27_SaveLoadRoundTrip ==
  [][/\ lastOp'.op = "save" =>
          /\ UNCHANGED <<nodes, edges, selectedNodeId, selectedNodeIds,
                         selectedEdgeId, diagramName, history, historyIndex>>
          /\ Arg(lastOp').schemaVersion = 1
          /\ Arg(lastOp').nodes = nodes
          /\ Arg(lastOp').edges = edges
          /\ Arg(lastOp').settings.name = diagramName
     /\ (lastOp'.op = "load" /\ Arg(lastOp') = saveDiagram) =>
          /\ ~lastOp'.threw
          /\ nodes' = nodes
          /\ edges' = edges
          /\ diagramName' = diagramName]_vars

\* A diagram that was edited and moved after it was loaded has been saved
\* and loaded again.
C27_Witness ==
  /\ lastOp.op = "load"
  /\ diagramName = "Imported"
  /\ Len(edges) >= 1
  /\ \E n \in Range(nodes) : n.title = "Edited"
  /\ \E n \in Range(nodes) : n.position = [x |-> 30, y |-> 40]

(***************************************************************************)
(* C28 The two node-selection fields agree in every reachable state:       *)
(* selectedNodeId is null exactly when selectedNodeIds is empty, and       *)
(* otherwise it is the first element of selectedNodeIds.                   *)
(***************************************************************************)
C28_SelectionFieldsAgree ==
  IF selectedNodeIds = <<>> THEN selectedNodeId = Null
  ELSE selectedNodeId = selectedNodeIds[1]

(***************************************************************************)
(* C29 Selection never dangles: in every reachable state selectedNodeId    *)
(* and every id in selectedNodeIds name a node of the node list, and       *)
(* selectedEdgeId, when not null, names an edge of the edge list; also     *)
(* after undo() or redo() restored a snapshot.                             *)
(***************************************************************************)
C29_SelectionNeverDangles ==
  /\ selectedNodeId # Null => selectedNodeId \in NodeIds(nodes)
  /\ Range(selectedNodeIds) \subseteq NodeIds(nodes)
  /\ selectedEdgeId # NullEdge => \E e \in Range(edges) : e.id = selectedEdgeId

(***************************************************************************)
(* updateEdge                                                              *)
(***************************************************************************)
EdgeUpdates == {[type |-> "straight"], [style |-> CustomStyle]}

updateEdge(id, updates) ==
  /\ saveToHistory
  /\ edges' = [i \in DOMAIN edges |->
                 IF edges[i].id = id THEN Merge(edges[i], updates)
                 ELSE edges[i]]
  /\ lastOp' = Op("updateEdge", id, Found(getEdgeById(edges, id)), FALSE)
  /\ rt' = RtEdit(Found(getEdgeById(edges, id)))
  /\ UNCHANGED <<nodes, selectedNodeId, selectedNodeIds, selectedEdgeId,
                 diagramName, nextId, derived, smartEdge, fileInput>>
  /\ saveToLocalStorage

UpdateEdge ==
  \E id \in EdgeIdUniverse, updates \in EdgeUpdates : updateEdge(id, updates)

NextEdgeEdit ==
  \/ UpdateEdge \/ AddRoot \/ AddChild \/ AddSibling \/ Delete \/ DeleteMany
  \/ SetSelection \/ Detach \/ Undo \/ Redo

SpecEdgeEdit == InitLoaded /\ [][NextEdgeEdit]_vars

(***************************************************************************)
(* C30 Edge edits survive node edits: an edge keeps the type and style     *)
(* that updateEdge gave it across any later addRoot, addChild, addSibling, *)
(* delete or deleteMany that does not remove its source or target node.    *)
(***************************************************************************)
C30_EdgeEditsSurvive ==
  [][lastOp'.op \in {"addRoot", "addChild", "addSibling", "delete",
                     "deleteMany"} =>
       \A e \in Range(edges) :
         (e.source \in NodeIds(nodes') /\ e.target \in NodeIds(nodes')) =>
           \E f \in Range(edges') :
             f.id = e.id /\ f.type = e.type /\ f.style = e.style]_vars

====
